---- MODULE Spec2Model ----
(***************************************************************************)
(* A model of the hive mesh node: the node table with liveness state, the  *)
(* outbound and inbound message queues, the TCP receiver, the sender       *)
(* client, the inbound queue processor, the gossip and heartbeat loops and *)
(* the operator commands.                                                  *)
(*                                                                         *)
(* Python objects that are shared by reference are modelled as such: a     *)
(* record of the node table is named by its position in the list           *)
(* hive_nodes (the running system only ever appends to that list), and a   *)
(* message whose recipient is a table record holds that position; a        *)
(* message whose recipient is an object of its own (the operator's         *)
(* connect) holds the object's value.                                      *)
(***************************************************************************)
EXTENDS Integers, Sequences, FiniteSets, TLC

(***************************************************************************)
(* Program constants and the bounds of the model.                          *)
(***************************************************************************)
MAX_SEND_ATTEMPTS == 3

\* The longest either message queue may grow in the model.
MaxQueue == 2

\* The last instant of the wall clock in the model.
MaxClock == 2
MaxRestarts == 1
MaxTable == 3
MaxCount == 3
MaxFrames == 2
MaxMessages == 2

\* last_heartbeat_timestamp = None
NoTimestamp == 0

\* The processes of the mesh and their addresses (scenario 1 of the spec:
\* all on 127.0.0.1, ports 5000, 5001, ...).
Procs == {"A", "B", "C"}

DEFAULT_IP_ADDRESS == "127.0.0.1"
DEFAULT_FRIENDLY_NAME == "Local Node"

PortOf(p) == CASE p = "A" -> 5000 [] p = "B" -> 5001 [] p = "C" -> 5002

Ports == {PortOf(p) : p \in Procs}

ProcAt(port) == CHOOSE p \in Procs : PortOf(p) = port

\* str(port_number), as the gossip payload carries it.
str(port) == CASE port = 5000 -> "5000" [] port = 5001 -> "5001" [] port = 5002 -> "5002"

\* int(text), as the receiver and the operator's connect read a port.
int(text) == CASE text = "5000" -> 5000 [] text = "5001" -> 5001 [] text = "5002" -> 5002

(***************************************************************************)
(* HiveNode                                                                *)
(***************************************************************************)
HiveNode(friendly_name, ip_address, port_number, is_local_node) ==
    [friendly_name |-> friendly_name,
     ip_address |-> ip_address,
     port_number |-> port_number,
     last_heartbeat_timestamp |-> NoTimestamp,
     status |-> "Live",
     failed_connection_count |-> 0,
     is_local_node |-> is_local_node]

node_is_dead(node) == [node EXCEPT !.status = "Dead"]

node_is_alive(node) == [node EXCEPT !.status = "Live"]

\* A variant that stamps the time and leaves the failure count alone.
set_last_heartbeat_timestamp_keeping_count(node, time) ==
    node_is_alive([node EXCEPT !.last_heartbeat_timestamp = time])

set_last_heartbeat_timestamp(node, time) ==
    node_is_alive([node EXCEPT !.last_heartbeat_timestamp = time,
                               !.failed_connection_count = 0])

\* A variant that marks the node Dead only once the count exceeds the maximum.
increase_failed_connection_count_exceeding(node) ==
    LET counted == [node EXCEPT !.failed_connection_count = @ + 1]
    IN  IF counted.failed_connection_count > MAX_SEND_ATTEMPTS
        THEN node_is_dead(counted)
        ELSE counted

increase_failed_connection_count(node) ==
    LET counted == [node EXCEPT !.failed_connection_count = @ + 1]
    IN  IF counted.failed_connection_count >= MAX_SEND_ATTEMPTS
        THEN node_is_dead(counted)
        ELSE counted

\* An equality that compares the friendly names as well.
eq_with_name(self, other) ==
    /\ self.friendly_name = other.friendly_name
    /\ self.ip_address = other.ip_address /\ self.port_number = other.port_number

\* HiveNode.__eq__
eq(self, other) ==
    self.ip_address = other.ip_address /\ self.port_number = other.port_number

(***************************************************************************)
(* HiveNodeManager: the operations on the list hive_nodes.                 *)
(***************************************************************************)
\* The position of the first record equal to HiveNode("temp", ip, port), 0 for None.
get_node_by_ip_address_and_port(nodes, source_ip_address, source_port) ==
    LET source_node == HiveNode("temp", source_ip_address, source_port, FALSE)
        found == {i \in 1..Len(nodes) : eq(nodes[i], source_node)}
    IN  IF found = {} THEN 0 ELSE CHOOSE i \in found : \A j \in found : i <= j

\* An add that appends without looking the identity up.
add_node_appending(nodes, new_node) == Append(nodes, new_node)

add_node(nodes, new_node) ==
    LET existing_node ==
            get_node_by_ip_address_and_port(nodes, new_node.ip_address, new_node.port_number)
    IN  IF existing_node # 0
        THEN [nodes EXCEPT ![existing_node].friendly_name = new_node.friendly_name]
        ELSE Append(nodes, new_node)

remove_node(nodes, node_to_remove) ==
    SelectSeq(nodes, LAMBDA node :
        ~(node.ip_address = node_to_remove.ip_address
          /\ node.port_number = node_to_remove.port_number))

\* The positions get_random_live_node draws from; the set is empty when it returns None.
\* A selection that leaves the status of the records out.
get_random_live_node_any_status(nodes, local_node) ==
    {i \in 1..Len(nodes) : ~eq(nodes[i], local_node)}

get_random_live_node(nodes, local_node) ==
    {i \in 1..Len(nodes) : nodes[i].status = "Live" /\ ~eq(nodes[i], local_node)}

get_all_live_nodes(nodes) == SelectSeq(nodes, LAMBDA node : node.status = "Live")

(***************************************************************************)
(* Messages.  A Python dict is a sequence of entries with distinct keys,   *)
(* in insertion order.                                                     *)
(***************************************************************************)
dict_set(d, entry) ==
    LET at == {i \in 1..Len(d) : d[i].friendly_name = entry.friendly_name}
    IN  IF at = {} THEN Append(d, entry)
        ELSE [i \in 1..Len(d) |-> IF i \in at THEN entry ELSE d[i]]

RECURSIVE nodes_info_from(_, _)
nodes_info_from(live_nodes, d) ==
    IF live_nodes = <<>> THEN d
    ELSE nodes_info_from(Tail(live_nodes),
            dict_set(d, [friendly_name |-> Head(live_nodes).friendly_name,
                         ip_address |-> Head(live_nodes).ip_address,
                         port_number |-> str(Head(live_nodes).port_number)]))

\* The dict comprehension of the gossip loop over get_all_live_nodes().
nodes_info(nodes) == nodes_info_from(get_all_live_nodes(nodes), <<>>)

\* A reference to the record at a position of hive_nodes, and an object of its own.
TableRef(i) == [kind |-> "table", idx |-> i, node |-> HiveNode("", "", 0, FALSE)]

Object(node) == [kind |-> "object", idx |-> 0, node |-> node]

NoMessage == "<none>"

BaseMessage(sender, recipient, command) ==
    [sender |-> sender, recipient |-> recipient, command |-> command,
     message |-> NoMessage, nodes |-> <<>>]

ConnectMessage(sender, recipient, message) ==
    [BaseMessage(sender, recipient, "connect") EXCEPT !.message = message]

HeartbeatMessage(sender, recipient) == BaseMessage(sender, recipient, "heartbeat")

GossipMessage(sender, recipient, nodes) ==
    [BaseMessage(sender, recipient, "gossip") EXCEPT !.nodes = nodes]

AckMessage(sender, recipient) == BaseMessage(sender, recipient, "ack_message")

HiveMessage(message) == [message |-> message, send_attempt_count |-> 0]

\* The object a reference names, given the node table it points into.
deref(nodes, ref) == IF ref.kind = "table" THEN nodes[ref.idx] ELSE ref.node

\* BaseMessage.to_dict and its overrides: the frame on the wire.
to_dict(nodes, message) ==
    LET sender == deref(nodes, message.sender)
        recipient == deref(nodes, message.recipient)
    IN  [command |-> message.command,
         source_friendly_name |-> sender.friendly_name,
         source_ip_address |-> sender.ip_address,
         source_port |-> sender.port_number,
         destination_friendly_name |-> recipient.friendly_name,
         destination_ip_address |-> recipient.ip_address,
         destination_port |-> recipient.port_number,
         message |-> message.message,
         nodes |-> message.nodes]

(***************************************************************************)
(* The state.  Every process of the mesh has the same state; up holds the  *)
(* processes that are running.                                             *)
(***************************************************************************)
VARIABLES
    up,                       \* the running processes
    hive_nodes,               \* HiveNodeManager.hive_nodes of each process
    outbound_message_queue,   \* MessageQueue("Outbound").queue of each process
    inbound_message_queue,    \* MessageQueue("Inbound").queue of each process
    gossip_enable,            \* GossipProtocolCommandManager.enable
    heartbeat_enable,         \* HeartbeatProtocolCommandManager.enable
    sender_running,           \* the thread of HiveSenderClient.run is alive
    processor_running,        \* the thread of InboundQueueCommandProcessor.run is alive
    now,                      \* datetime.datetime.now()
    failures,                 \* history: consecutive recorded send failures per address
    restarts,                 \* history: how often each process was restarted
    last,                     \* history: the operation that acted last
    threads,                  \* where each thread stands inside the call it is making
    connections,              \* the accepted connections, one per handle_client thread
    dequeued,                 \* the local variable message of each queue consumer's run()
    history                   \* history: the enqueue and dequeue calls of each queue

vars == <<up, hive_nodes, outbound_message_queue, inbound_message_queue,
          gossip_enable, heartbeat_enable, sender_running, processor_running,
          now, failures, restarts, last, threads, connections, dequeued, history>>

\* The threads of a process that write to its node table: two of the threads
\* HiveReceiverService.run starts per connection, the inbound processor and
\* the sender.
Handlers == {"handle_client 1", "handle_client 2"}

Threads == Handlers \cup {"processor", "sender"}

\* The threads of the two protocol managers' run() loops.
Loops == {"gossip", "heartbeat"}

\* The main thread, which runs AppMain.run.
Main == {"main"}

\* A thread between two calls; inside one, pc names the next statement and
\* node, idx and count are the call's locals.
Idle == [pc |-> "idle", node |-> HiveNode("", "", 0, FALSE), idx |-> 0, count |-> 0]

\* A connection: whether the socket is open, the frames the peer has written
\* that recv has not returned yet, and what was read and written on it so far.
NoConnection == [open |-> FALSE, unread |-> <<>>, log |-> <<>>]

\* The two queues of a process and the one thread that dequeues from each.
Queues == {"Outbound", "Inbound"}

Consumers == {"sender", "processor"}

\* Optional[HiveMessage]: None, and a message m as <<m>>.
None == <<>>

\* The calls made on a queue so far.  Every enqueue call gets the next ticket:
\* enqueued[k] is the argument of call k and origin[k] the ticket under which
\* that message object was enqueued first; returned holds the messages that
\* dequeue has returned, in order.  The tickets travel with the messages:
\* waiting holds those of the messages in the queue, held the one of the
\* message the consumer is working on (0 for none), and attempts the origins
\* of the messages the sender has tried to transmit, in order.
NoHistory ==
    [enqueued |-> <<>>, origin |-> <<>>, waiting |-> <<>>, returned |-> <<>>,
     held |-> 0, attempts |-> <<>>]

\* HiveNodeManager.local_node: the object appended first by __init__.
local_node(n) == hive_nodes[n][1]

Last(op, proc, port, was) == [op |-> op, proc |-> proc, port |-> port, was |-> was]

\* The status of the record of an address in a table, "absent" when there is none.
StatusOf(nodes, ip_address, port_number) ==
    LET i == get_node_by_ip_address_and_port(nodes, ip_address, port_number)
    IN  IF i = 0 THEN "absent" ELSE nodes[i].status

\* AppMain.run: the local node, its manager, the two queues, the class flags.
StartedTable(n) == add_node(<<>>, HiveNode(n, DEFAULT_IP_ADDRESS, PortOf(n), TRUE))

InitWith(running, tables) ==
    /\ up = running
    /\ hive_nodes = tables
    /\ outbound_message_queue = [n \in Procs |-> <<>>]
    /\ inbound_message_queue = [n \in Procs |-> <<>>]
    /\ gossip_enable = [n \in Procs |-> TRUE]
    /\ heartbeat_enable = [n \in Procs |-> TRUE]
    /\ sender_running = [n \in Procs |-> TRUE]
    /\ processor_running = [n \in Procs |-> TRUE]
    /\ now = 1
    /\ failures = [n \in Procs |-> [port \in Ports |-> 0]]
    /\ restarts = [n \in Procs |-> 0]
    /\ last = Last("start", "A", 0, "absent")
    /\ threads = [n \in Procs |-> [t \in Threads \cup Loops \cup Main |-> Idle]]
    /\ connections = [n \in Procs |-> [c \in Handlers |-> NoConnection]]
    /\ dequeued = [n \in Procs |-> [t \in Consumers |-> None]]
    /\ history = [n \in Procs |-> [q \in Queues |-> NoHistory]]

(***************************************************************************)
(* MessageQueue                                                            *)
(***************************************************************************)
\* An enqueue that inserts at the head.
enqueue_at_head(queue, hive_message) == <<hive_message>> \o queue

enqueue(queue, hive_message) == Append(queue, hive_message)

\* A dequeue that reads the head and leaves it in the list.
dequeue_rest_keeping(queue) == queue

\* dequeue returns the head and leaves the rest; on an empty queue it returns None.
dequeue_rest(queue) == IF Len(queue) > 0 THEN Tail(queue) ELSE queue

\* A dequeue that returns the newest message.
dequeue_newest(queue) == IF Len(queue) > 0 THEN <<queue[Len(queue)]>> ELSE None

\* What dequeue returns.
dequeue(queue) == IF Len(queue) > 0 THEN <<Head(queue)>> ELSE None

(***************************************************************************)
(* HiveReceiverService: what handle_client does with one frame.            *)
(***************************************************************************)
sender_node_of(data_dict) ==
    HiveNode(data_dict.source_friendly_name, data_dict.source_ip_address,
             data_dict.source_port, FALSE)

handle_connect(queue, data_dict) ==
    enqueue(queue, HiveMessage(ConnectMessage(Object(sender_node_of(data_dict)), TableRef(1),
        IF data_dict.message = NoMessage THEN "Hello" ELSE data_dict.message)))

handle_heartbeat(queue, data_dict) ==
    enqueue(queue, HiveMessage(HeartbeatMessage(Object(sender_node_of(data_dict)), TableRef(1))))

\* A handler that stamps the nodes a gossip frame mentions.
RECURSIVE handle_gossip_stamping(_, _, _)
handle_gossip_stamping(nodes, local, entries) ==
    IF entries = <<>> THEN nodes
    ELSE LET new_node == set_last_heartbeat_timestamp(
                             HiveNode(Head(entries).friendly_name, Head(entries).ip_address,
                                      int(Head(entries).port_number), FALSE), 1)
         IN  handle_gossip_stamping(
                 IF ~eq(new_node, local) THEN add_node(nodes, new_node) ELSE nodes,
                 local, Tail(entries))

RECURSIVE handle_gossip(_, _, _)
handle_gossip(nodes, local, entries) ==
    IF entries = <<>> THEN nodes
    ELSE LET new_node == HiveNode(Head(entries).friendly_name, Head(entries).ip_address,
                                  int(Head(entries).port_number), FALSE)
         IN  handle_gossip(IF ~eq(new_node, local) THEN add_node(nodes, new_node) ELSE nodes,
                           local, Tail(entries))

\* A receiver whose else branch enqueues the frame as a heartbeat.
routed_queue_enqueueing_unknown(queue, data_dict) ==
    IF data_dict.command = "connect" THEN handle_connect(queue, data_dict)
    ELSE IF data_dict.command \in {"ack_message", "gossip"} THEN queue
    ELSE handle_heartbeat(queue, data_dict)

\* The inbound queue and the node table after handle_client has routed the frame.
routed_queue(queue, data_dict) ==
    CASE data_dict.command = "connect" -> handle_connect(queue, data_dict)
      [] data_dict.command = "heartbeat" -> handle_heartbeat(queue, data_dict)
      [] OTHER -> queue

routed_nodes(nodes, data_dict) ==
    IF data_dict.command = "gossip"
    THEN handle_gossip(nodes, nodes[1], data_dict.nodes)
    ELSE nodes

\* The frame enqueues a message on the inbound queue.
Enqueues(data_dict) == data_dict.command \in {"connect", "heartbeat"}

(***************************************************************************)
(* InboundQueueCommandProcessor: process_message on one dequeued message.  *)
(***************************************************************************)
process_command_connect(nodes, hive_message) ==
    LET sender == hive_message.message.sender.node
    IN  add_node(nodes, HiveNode(sender.friendly_name, sender.ip_address,
                                 sender.port_number, FALSE))

process_command_heartbeat(nodes, hive_message, time) ==
    LET sender == hive_message.message.sender.node
        source_node ==
            get_node_by_ip_address_and_port(nodes, sender.ip_address, sender.port_number)
    IN  IF source_node # 0
        THEN [nodes EXCEPT ![source_node] = set_last_heartbeat_timestamp(@, time)]
        ELSE add_node(nodes, set_last_heartbeat_timestamp(
                HiveNode(sender.friendly_name, sender.ip_address, sender.port_number, FALSE),
                time))

\* process_command_gossip subscripts the string to_json() returns: a TypeError
\* that ends the processor's thread before any record is touched.
process_message_raises(hive_message) == hive_message.message.command = "gossip"

process_message(nodes, hive_message, time) ==
    CASE hive_message.message.command = "connect" ->
            process_command_connect(nodes, hive_message)
      [] hive_message.message.command = "heartbeat" ->
            process_command_heartbeat(nodes, hive_message, time)
      [] OTHER -> nodes

(***************************************************************************)
(* History: failures[n][port] counts the send failures that the sender of  *)
(* n has recorded in a row against an address, with no successful send to  *)
(* it and no inbound evidence about it in between.                         *)
(***************************************************************************)
Evidence(f, ports) == [port \in Ports |-> IF port \in ports THEN 0 ELSE f[port]]

Failed(f, port) ==
    [f EXCEPT ![port] = IF @ < MAX_SEND_ATTEMPTS THEN @ + 1 ELSE @]

\* The addresses a frame is evidence about: its sender and every node it mentions.
AboutPorts(data_dict) ==
    {data_dict.source_port}
        \cup {int(data_dict.nodes[i].port_number) : i \in 1..Len(data_dict.nodes)}

(***************************************************************************)
(* GossipProtocolCommandManager.run and HeartbeatProtocolCommandManager.run*)
(* : one tick of each loop.                                                *)
(***************************************************************************)
GossipSend(n, random_node) ==
    /\ n \in up
    /\ gossip_enable[n]
    /\ random_node \in get_random_live_node(hive_nodes[n], local_node(n))
    /\ Len(outbound_message_queue[n]) < MaxQueue
    /\ outbound_message_queue' = [outbound_message_queue EXCEPT ![n] =
            enqueue(@, HiveMessage(GossipMessage(TableRef(1), TableRef(random_node),
                                                 nodes_info(hive_nodes[n]))))]
    /\ last' = Last("gossip_run", n, hive_nodes[n][random_node].port_number, "Live")
    /\ UNCHANGED <<up, hive_nodes, inbound_message_queue, gossip_enable, heartbeat_enable,
                   sender_running, processor_running, now, failures, restarts,
                   threads, connections, dequeued, history>>

GossipSkip(n) ==
    /\ n \in up
    /\ ~gossip_enable[n] \/ get_random_live_node(hive_nodes[n], local_node(n)) = {}
    /\ last' = Last("gossip_run", n, 0, "absent")
    /\ UNCHANGED <<up, hive_nodes, outbound_message_queue, inbound_message_queue,
                   gossip_enable, heartbeat_enable, sender_running, processor_running,
                   now, failures, restarts,
                   threads, connections, dequeued, history>>

HeartbeatSend(n, random_remote_node) ==
    /\ n \in up
    /\ heartbeat_enable[n]
    /\ random_remote_node \in get_random_live_node(hive_nodes[n], local_node(n))
    /\ Len(outbound_message_queue[n]) < MaxQueue
    /\ outbound_message_queue' = [outbound_message_queue EXCEPT ![n] =
            enqueue(@, HiveMessage(HeartbeatMessage(TableRef(1), TableRef(random_remote_node))))]
    /\ last' = Last("heartbeat_run", n, hive_nodes[n][random_remote_node].port_number, "Live")
    /\ UNCHANGED <<up, hive_nodes, inbound_message_queue, gossip_enable, heartbeat_enable,
                   sender_running, processor_running, now, failures, restarts,
                   threads, connections, dequeued, history>>

HeartbeatSkip(n) ==
    /\ n \in up
    /\ ~heartbeat_enable[n] \/ get_random_live_node(hive_nodes[n], local_node(n)) = {}
    /\ last' = Last("heartbeat_run", n, 0, "absent")
    /\ UNCHANGED <<up, hive_nodes, outbound_message_queue, inbound_message_queue,
                   gossip_enable, heartbeat_enable, sender_running, processor_running,
                   now, failures, restarts,
                   threads, connections, dequeued, history>>

(***************************************************************************)
(* CliCommandProcessor: the operator's commands.                           *)
(***************************************************************************)
connect_to_node(n, ip_address, port) ==
    /\ n \in up
    /\ Len(outbound_message_queue[n]) < MaxQueue
    /\ LET remote_node == HiveNode("remote_node", ip_address, int(port), FALSE)
       IN  /\ outbound_message_queue' = [outbound_message_queue EXCEPT ![n] =
                  enqueue(@, HiveMessage(ConnectMessage(TableRef(1), Object(remote_node), "Hello")))]
           /\ last' = Last("connect_to_node", n, int(port),
                           StatusOf(hive_nodes[n], ip_address, int(port)))
    /\ UNCHANGED <<up, hive_nodes, inbound_message_queue, gossip_enable, heartbeat_enable,
                   sender_running, processor_running, now, failures, restarts,
                   threads, connections, dequeued, history>>

set_gossip_protocol(n, enable) ==
    /\ n \in up
    /\ gossip_enable' = [gossip_enable EXCEPT ![n] = enable]
    /\ last' = Last("set_gossip_protocol", n, 0, "absent")
    /\ UNCHANGED <<up, hive_nodes, outbound_message_queue, inbound_message_queue,
                   heartbeat_enable, sender_running, processor_running, now, failures,
                   restarts,
                   threads, connections, dequeued, history>>

set_heartbeat_protocol(n, enable) ==
    /\ n \in up
    /\ heartbeat_enable' = [heartbeat_enable EXCEPT ![n] = enable]
    /\ last' = Last("set_heartbeat_protocol", n, 0, "absent")
    /\ UNCHANGED <<up, hive_nodes, outbound_message_queue, inbound_message_queue,
                   gossip_enable, sender_running, processor_running, now, failures,
                   restarts,
                   threads, connections, dequeued, history>>

enable_gossip_protocol(n) == set_gossip_protocol(n, TRUE)

disable_gossip_protocol(n) == set_gossip_protocol(n, FALSE)

enable_heartbeat_protocol(n) == set_heartbeat_protocol(n, TRUE)

disable_heartbeat_protocol(n) == set_heartbeat_protocol(n, FALSE)

(***************************************************************************)
(* HiveSenderClient.run: one turn of the loop on a non-empty queue, by the *)
(* outcome of send_message.                                                *)
(***************************************************************************)
Sending(n) == n \in up /\ sender_running[n] /\ Len(outbound_message_queue[n]) > 0

\* The object the head message's recipient names, and the frame to_json encodes.
recipient_of(n) == deref(hive_nodes[n], Head(outbound_message_queue[n]).message.recipient)

frame_of(n) == to_dict(hive_nodes[n], Head(outbound_message_queue[n]).message)

\* The except ConnectionRefusedError branch: the message and the node table after it.
refused_message(hive_message) ==
    LET attempted == [hive_message EXCEPT !.send_attempt_count = @ + 1]
    IN  IF attempted.message.recipient.kind = "table"
        THEN attempted
        ELSE [attempted EXCEPT !.message.recipient.node = increase_failed_connection_count(@)]

\* An except branch that drops the record of a recipient it marks Dead.
refused_nodes_evicting(nodes, hive_message) ==
    IF hive_message.message.recipient.kind = "table"
    THEN LET idx == hive_message.message.recipient.idx
             node == increase_failed_connection_count(nodes[idx])
         IN  IF node.status = "Dead"
             THEN SubSeq(nodes, 1, idx - 1) \o SubSeq(nodes, idx + 1, Len(nodes))
             ELSE [nodes EXCEPT ![idx] = node]
    ELSE nodes

\* An except branch that counts the failure against the sender of the message.
refused_nodes_counting_sender(nodes, hive_message) ==
    IF hive_message.message.sender.kind = "table"
    THEN [nodes EXCEPT ![hive_message.message.sender.idx] =
                increase_failed_connection_count(@)]
    ELSE nodes

refused_nodes(nodes, hive_message) ==
    IF hive_message.message.recipient.kind = "table"
    THEN [nodes EXCEPT ![hive_message.message.recipient.idx] =
                increase_failed_connection_count(@)]
    ELSE nodes

\* An except branch that enqueues the message again whatever its count.
refused_queue_always_retrying(queue, hive_message) ==
    enqueue(dequeue_rest(queue), refused_message(hive_message))

refused_queue(queue, hive_message) ==
    IF refused_message(hive_message).send_attempt_count >= MAX_SEND_ATTEMPTS
    THEN dequeue_rest(queue)
    ELSE enqueue(dequeue_rest(queue), refused_message(hive_message))

\* connect, sendall and recv succeed against a peer outside the model.
SendAcked(n) ==
    /\ Sending(n)
    /\ ProcAt(recipient_of(n).port_number) \notin up
    /\ outbound_message_queue' = [outbound_message_queue EXCEPT ![n] = dequeue_rest(@)]
    /\ failures' = [failures EXCEPT ![n] = Evidence(@, {recipient_of(n).port_number})]
    /\ last' = Last("send_acked", n, recipient_of(n).port_number, recipient_of(n).status)
    /\ UNCHANGED <<up, hive_nodes, inbound_message_queue, gossip_enable, heartbeat_enable,
                   sender_running, processor_running, now, restarts,
                   threads, connections, dequeued, history>>

\* connect raises ConnectionRefusedError.
SendRefused(n) ==
    /\ Sending(n)
    /\ ProcAt(recipient_of(n).port_number) \notin up
    /\ hive_nodes' = [hive_nodes EXCEPT ![n] = refused_nodes(@, Head(outbound_message_queue[n]))]
    /\ outbound_message_queue' = [outbound_message_queue EXCEPT ![n] =
            refused_queue(@, Head(@))]
    /\ failures' = [failures EXCEPT ![n] = Failed(@, recipient_of(n).port_number)]
    /\ last' = Last("send_refused", n, recipient_of(n).port_number, recipient_of(n).status)
    /\ UNCHANGED <<up, inbound_message_queue, gossip_enable, heartbeat_enable,
                   sender_running, processor_running, now, restarts,
                   threads, connections, dequeued, history>>

\* connect, sendall or recv raises another OSError (timeout, reset, unreachable):
\* no except clause catches it, it leaves run() and ends the sender's thread.
SendRaised(n) ==
    /\ Sending(n)
    /\ ProcAt(recipient_of(n).port_number) \notin up
    /\ outbound_message_queue' = [outbound_message_queue EXCEPT ![n] = dequeue_rest(@)]
    /\ sender_running' = [sender_running EXCEPT ![n] = FALSE]
    /\ last' = Last("send_raised", n, recipient_of(n).port_number, recipient_of(n).status)
    /\ UNCHANGED <<up, hive_nodes, inbound_message_queue, gossip_enable, heartbeat_enable,
                   processor_running, now, failures, restarts,
                   threads, connections, dequeued, history>>

\* The recipient is a running process of the model: its handle_client reads the
\* frame, routes it and writes the acknowledgment the sender's recv returns.
SendDelivered(n) ==
    /\ Sending(n)
    /\ LET r == ProcAt(recipient_of(n).port_number)
           data_dict == frame_of(n)
       IN  /\ r \in up
           /\ Enqueues(data_dict) => Len(inbound_message_queue[r]) < MaxQueue
           /\ outbound_message_queue' = [outbound_message_queue EXCEPT ![n] = dequeue_rest(@)]
           /\ inbound_message_queue' = [inbound_message_queue EXCEPT ![r] =
                  routed_queue(@, data_dict)]
           /\ hive_nodes' = [hive_nodes EXCEPT ![r] = routed_nodes(@, data_dict)]
           /\ failures' = [m \in Procs |->
                  LET sent == IF m = n THEN Evidence(failures[m], {recipient_of(n).port_number})
                              ELSE failures[m]
                  IN  IF m = r THEN Evidence(sent, AboutPorts(data_dict)) ELSE sent]
           /\ last' = Last("send_delivered", n, recipient_of(n).port_number,
                           recipient_of(n).status)
    /\ UNCHANGED <<up, gossip_enable, heartbeat_enable, sender_running, processor_running,
                   now, restarts,
                   threads, connections, dequeued, history>>

(***************************************************************************)
(* HiveReceiverService.handle_client: one frame from a peer outside the    *)
(* model.                                                                  *)
(***************************************************************************)
ReceiveFrame(n, data_dict) ==
    /\ n \in up
    /\ Enqueues(data_dict) => Len(inbound_message_queue[n]) < MaxQueue
    /\ inbound_message_queue' = [inbound_message_queue EXCEPT ![n] =
            routed_queue(@, data_dict)]
    /\ hive_nodes' = [hive_nodes EXCEPT ![n] = routed_nodes(@, data_dict)]
    /\ failures' = [failures EXCEPT ![n] = Evidence(@, AboutPorts(data_dict))]
    /\ last' = Last(data_dict.command, n, data_dict.source_port,
                    StatusOf(hive_nodes[n], data_dict.source_ip_address, data_dict.source_port))
    /\ UNCHANGED <<up, outbound_message_queue, gossip_enable, heartbeat_enable,
                   sender_running, processor_running, now, restarts,
                   threads, connections, dequeued, history>>

(***************************************************************************)
(* InboundQueueCommandProcessor.run: one turn of the loop on a non-empty   *)
(* queue.                                                                  *)
(***************************************************************************)
ProcessorRun(n) ==
    /\ n \in up
    /\ processor_running[n]
    /\ Len(inbound_message_queue[n]) > 0
    /\ LET hive_message == Head(inbound_message_queue[n])
           sender == hive_message.message.sender.node
       IN  /\ inbound_message_queue' = [inbound_message_queue EXCEPT ![n] = dequeue_rest(@)]
           /\ hive_nodes' = [hive_nodes EXCEPT ![n] = process_message(@, hive_message, now)]
           /\ processor_running' = [processor_running EXCEPT ![n] =
                  ~process_message_raises(hive_message)]
           /\ failures' = [failures EXCEPT ![n] = Evidence(@, {sender.port_number})]
           /\ last' = Last(CASE hive_message.message.command = "heartbeat" ->
                                    "process_command_heartbeat"
                             [] hive_message.message.command = "connect" ->
                                    "process_command_connect"
                             [] OTHER -> "process_message",
                           n, sender.port_number,
                           StatusOf(hive_nodes[n], sender.ip_address, sender.port_number))
    /\ UNCHANGED <<up, outbound_message_queue, gossip_enable, heartbeat_enable,
                   sender_running, now, restarts,
                   threads, connections, dequeued, history>>

(***************************************************************************)
(* The environment: the wall clock, and a process being killed and started *)
(* again (with the state AppMain.run builds).                              *)
(***************************************************************************)
Tick ==
    /\ now < MaxClock
    /\ now' = now + 1
    /\ UNCHANGED <<up, hive_nodes, outbound_message_queue, inbound_message_queue,
                   gossip_enable, heartbeat_enable, sender_running, processor_running,
                   failures, restarts, last,
                   threads, connections, dequeued, history>>

(***************************************************************************)
(* The frames the peers outside the model send to n: every command, the    *)
(* gossip ones with the payload a peer builds from a table that holds a    *)
(* set of the nodes.                                                       *)
(***************************************************************************)
ProcOrder == <<"A", "B", "C">>

TableOf(S) ==
    LET members == SelectSeq(ProcOrder, LAMBDA p : p \in S)
    IN  [i \in 1..Len(members) |->
            HiveNode(members[i], DEFAULT_IP_ADDRESS, PortOf(members[i]), FALSE)]

FrameFrom(p, n, message) ==
    to_dict(<<HiveNode(p, DEFAULT_IP_ADDRESS, PortOf(p), TRUE),
              HiveNode(n, DEFAULT_IP_ADDRESS, PortOf(n), FALSE)>>, message)

PeerFrames(peers, n) ==
    UNION {
        {FrameFrom(p, n, ConnectMessage(TableRef(1), TableRef(2), "Hello")),
         FrameFrom(p, n, HeartbeatMessage(TableRef(1), TableRef(2))),
         FrameFrom(p, n, AckMessage(TableRef(1), TableRef(2))),
         FrameFrom(p, n, BaseMessage(TableRef(1), TableRef(2), "service_status"))}
        \cup {FrameFrom(p, n, GossipMessage(TableRef(1), TableRef(2), nodes_info(TableOf(S)))) :
                S \in SUBSET ({n} \cup peers) \ {{}}}
        : p \in peers}

(***************************************************************************)
(* Spec: one running node, A, and one peer outside the model, B.  Every    *)
(* handler is one step; the clock stands still, the protocol flags stay as *)
(* AppMain.run finds them and the operator connects to B's address.        *)
(***************************************************************************)
Init == InitWith({"A"}, [n \in Procs |-> StartedTable(n)])

Next ==
    \/ \E n \in Procs, i \in 1..Cardinality(Procs) : GossipSend(n, i)
    \/ \E n \in Procs : GossipSkip(n)
    \/ \E n \in Procs, i \in 1..Cardinality(Procs) : HeartbeatSend(n, i)
    \/ \E n \in Procs : HeartbeatSkip(n)
    \/ \E n \in Procs : connect_to_node(n, DEFAULT_IP_ADDRESS, str(PortOf("B")))
    \/ \E n \in Procs : SendAcked(n)
    \/ \E n \in Procs : SendRefused(n)
    \/ \E n \in Procs : SendRaised(n)
    \/ \E n \in Procs : \E data_dict \in PeerFrames({"B"}, n) : ReceiveFrame(n, data_dict)
    \/ \E n \in Procs : ProcessorRun(n)

Spec == Init /\ [][Next]_vars

\* The record of an address in the table of n (0 when there is none).
RecordOf(n, ip_address, port_number) ==
    get_node_by_ip_address_and_port(hive_nodes[n], ip_address, port_number)

\* The sender of n has just recorded a failed attempt (of either kind).
SendFails(n) == SendRefused(n) \/ SendRaised(n)

(***************************************************************************)
(* C1: once the sender of a node has recorded MAX_SEND_ATTEMPTS failed     *)
(* attempts in a row against the address of a peer that has a record in    *)
(* the node's table, with no successful send and no inbound evidence about *)
(* the peer in between, that record is Dead with failed_connection_count   *)
(* >= MAX_SEND_ATTEMPTS, whatever command the failed messages carry.       *)
(***************************************************************************)
C1_FailuresMarkDead ==
    \A n \in up : \A i \in 1..Len(hive_nodes[n]) :
        failures[n][hive_nodes[n][i].port_number] >= MAX_SEND_ATTEMPTS
            => /\ hive_nodes[n][i].status = "Dead"
               /\ hive_nodes[n][i].failed_connection_count >= MAX_SEND_ATTEMPTS

(***************************************************************************)
(* C3: after a node has handled a gossip frame, every record that a        *)
(* payload entry names, that was already in the table and is not the local *)
(* one, is Live with failed_connection_count 0.                            *)
(***************************************************************************)
C3_GossipMentionRevives ==
    [][\A n \in Procs : \A data_dict \in PeerFrames({"B"}, n) :
        (data_dict.command = "gossip" /\ ReceiveFrame(n, data_dict))
            => \A e \in 1..Len(data_dict.nodes) :
                LET i == RecordOf(n, data_dict.nodes[e].ip_address,
                                  int(data_dict.nodes[e].port_number))
                IN  (i # 0 /\ ~eq(hive_nodes[n][i], local_node(n)))
                        => /\ hive_nodes'[n][i].status = "Live"
                           /\ hive_nodes'[n][i].failed_connection_count = 0]_vars

(***************************************************************************)
(* C4: when a peer's record is Dead with failed_connection_count >=        *)
(* MAX_SEND_ATTEMPTS and the node processes a connect message whose sender *)
(* is that peer, the record is Live with failed_connection_count 0         *)
(* afterwards.                                                             *)
(***************************************************************************)
C4_ConnectRevives ==
    [][\A n \in Procs :
        (ProcessorRun(n) /\ Head(inbound_message_queue[n]).message.command = "connect")
            => LET sender == Head(inbound_message_queue[n]).message.sender.node
                   i == RecordOf(n, sender.ip_address, sender.port_number)
               IN  (/\ i # 0
                    /\ hive_nodes[n][i].status = "Dead"
                    /\ hive_nodes[n][i].failed_connection_count >= MAX_SEND_ATTEMPTS)
                        => /\ hive_nodes'[n][i].status = "Live"
                           /\ hive_nodes'[n][i].failed_connection_count = 0]_vars

(***************************************************************************)
(* C9: every failed send attempt adds exactly one to the message's         *)
(* send_attempt_count; the message is then at the tail of the outbound     *)
(* queue iff that count is below MAX_SEND_ATTEMPTS and is dropped          *)
(* otherwise; so no queued message has been attempted MAX_SEND_ATTEMPTS    *)
(* times.                                                                  *)
(***************************************************************************)
C9_RetryPolicy ==
    /\ [][\A n \in Procs : SendFails(n) =>
            LET hive_message == Head(outbound_message_queue[n])
                rest == Tail(outbound_message_queue[n])
                queue == outbound_message_queue'[n]
            IN  IF hive_message.send_attempt_count + 1 < MAX_SEND_ATTEMPTS
                THEN /\ Len(queue) = Len(rest) + 1
                     /\ SubSeq(queue, 1, Len(rest)) = rest
                     /\ queue[Len(queue)].send_attempt_count
                            = hive_message.send_attempt_count + 1
                     /\ queue[Len(queue)].message.command = hive_message.message.command
                     /\ queue[Len(queue)].message.recipient.kind
                            = hive_message.message.recipient.kind
                ELSE queue = rest]_vars
    /\ [](\A n \in Procs : \A k \in 1..Len(outbound_message_queue[n]) :
            outbound_message_queue[n][k].send_attempt_count < MAX_SEND_ATTEMPTS)

(***************************************************************************)
(* C10: a failed send attempt of any kind (refused, timeout, reset,        *)
(* unreachable) is never fatal: the recipient's failed_connection_count    *)
(* goes up by one, the message is enqueued again unless it has reached its *)
(* ceiling, and the sender's loop keeps running.                           *)
(***************************************************************************)
C10_SendFailureNeverFatal ==
    [][\A n \in Procs : SendFails(n) =>
        LET hive_message == Head(outbound_message_queue[n])
            recipient == hive_message.message.recipient
        IN  /\ sender_running'[n]
            /\ recipient.kind = "table" =>
                    hive_nodes'[n][recipient.idx].failed_connection_count
                        = hive_nodes[n][recipient.idx].failed_connection_count + 1
            /\ hive_message.send_attempt_count + 1 < MAX_SEND_ATTEMPTS
                    => Len(outbound_message_queue'[n]) = Len(outbound_message_queue[n])]_vars

(***************************************************************************)
(* SpecInbound: the inbound path of node A alone, with peers B and C       *)
(* outside the model.  A starts with any table its other threads can have  *)
(* built by then: the local record first, then records of peers that are   *)
(* Live with fewer than MAX_SEND_ATTEMPTS failures or Dead with that many, *)
(* with or without a heartbeat seen.  The receiver takes frames, the       *)
(* processor handles them and the clock runs.                              *)
(***************************************************************************)
PeerRecords(p) ==
    {[HiveNode(p, DEFAULT_IP_ADDRESS, PortOf(p), FALSE) EXCEPT
            !.last_heartbeat_timestamp = t,
            !.status = IF c >= MAX_SEND_ATTEMPTS THEN "Dead" ELSE "Live",
            !.failed_connection_count = c] :
        t \in {NoTimestamp, 1}, c \in 0..MAX_SEND_ATTEMPTS}

InboundTables ==
    {StartedTable("A")}
    \cup {Append(StartedTable("A"), r) : r \in PeerRecords("B") \cup PeerRecords("C")}
    \cup {StartedTable("A") \o <<r, s>> : r \in PeerRecords("B"), s \in PeerRecords("C")}

InitInbound ==
    \E table \in InboundTables :
        InitWith({"A"}, [n \in Procs |-> IF n = "A" THEN table ELSE StartedTable(n)])

\* The frames peers B and C send to A.
InboundFrames == PeerFrames({"B", "C"}, "A")

NextInbound ==
    \/ \E data_dict \in InboundFrames : ReceiveFrame("A", data_dict)
    \/ ProcessorRun("A")
    \/ Tick

SpecInbound == InitInbound /\ [][NextInbound]_vars

(***************************************************************************)
(* C2: when the inbound processor handles a heartbeat from (ip, port): if  *)
(* a record with that identity exists, afterwards it is Live with          *)
(* failed_connection_count 0 and last_heartbeat_timestamp the processing   *)
(* time (not None); if none exists, afterwards the table holds exactly one *)
(* new record, with that identity, Live, count 0 and a timestamp that is   *)
(* not None.  No other record is changed.                                  *)
(***************************************************************************)
C2_HeartbeatProcessed ==
    [][\A n \in Procs :
        (ProcessorRun(n) /\ Head(inbound_message_queue[n]).message.command = "heartbeat")
            => LET sender == Head(inbound_message_queue[n]).message.sender.node
                   i == RecordOf(n, sender.ip_address, sender.port_number)
                   before == hive_nodes[n]
                   after == hive_nodes'[n]
                   fresh(node) == /\ node.ip_address = sender.ip_address
                                  /\ node.port_number = sender.port_number
                                  /\ node.status = "Live"
                                  /\ node.failed_connection_count = 0
                                  /\ node.last_heartbeat_timestamp # NoTimestamp
               IN  IF i # 0
                   THEN /\ Len(after) = Len(before)
                        /\ fresh(after[i])
                        /\ after[i].last_heartbeat_timestamp = now
                        /\ \A j \in 1..Len(before) : j # i => after[j] = before[j]
                   ELSE /\ Len(after) = Len(before) + 1
                        /\ fresh(after[Len(after)])
                        /\ \A j \in 1..Len(before) : after[j] = before[j]]_vars

\* The processor has just handled a heartbeat from a peer whose record was Dead
\* and stamped before the clock moved: the record is Live again and re-stamped.
C2_DeadPeerHeardAgain ==
    /\ last.op = "process_command_heartbeat"
    /\ last.was = "Dead"
    /\ now > 1
    /\ LET i == RecordOf(last.proc, DEFAULT_IP_ADDRESS, last.port)
       IN  /\ i # 0
           /\ hive_nodes[last.proc][i].status = "Live"
           /\ hive_nodes[last.proc][i].failed_connection_count = 0
           /\ hive_nodes[last.proc][i].last_heartbeat_timestamp = now

(***************************************************************************)
(* SpecMesh: three running nodes that send to one another, every send      *)
(* succeeding.  A knows B, B knows C and C knows nobody; each record       *)
(* carries the friendly name its node was started with, which is either a  *)
(* name of its own (-friendly_name) or the default every node shares.  The *)
(* operators have switched the heartbeat protocol off, so that membership  *)
(* spreads by gossip alone.  The loops run fairly and the random choice of *)
(* a live node picks every live node again and again.                      *)
(***************************************************************************)
Knows == [n \in Procs |-> CASE n = "A" -> <<"B">> [] n = "B" -> <<"C">> [] OTHER -> <<>>]

Namings == {[n \in Procs |-> n], [n \in Procs |-> DEFAULT_FRIENDLY_NAME]}

MeshTable(n, name) ==
    <<HiveNode(name[n], DEFAULT_IP_ADDRESS, PortOf(n), TRUE)>>
        \o [i \in 1..Len(Knows[n]) |->
                HiveNode(name[Knows[n][i]], DEFAULT_IP_ADDRESS, PortOf(Knows[n][i]), FALSE)]

InitMesh ==
    \E name \in Namings :
        /\ up = Procs
        /\ hive_nodes = [n \in Procs |-> MeshTable(n, name)]
        /\ outbound_message_queue = [n \in Procs |-> <<>>]
        /\ inbound_message_queue = [n \in Procs |-> <<>>]
        /\ gossip_enable = [n \in Procs |-> TRUE]
        /\ heartbeat_enable = [n \in Procs |-> FALSE]
        /\ sender_running = [n \in Procs |-> TRUE]
        /\ processor_running = [n \in Procs |-> TRUE]
        /\ now = 1
        /\ failures = [n \in Procs |-> [port \in Ports |-> 0]]
        /\ restarts = [n \in Procs |-> 0]
        /\ last = Last("start", "A", 0, "absent")
        /\ threads = [n \in Procs |-> [t \in Threads \cup Loops \cup Main |-> Idle]]
        /\ connections = [n \in Procs |-> [c \in Handlers |-> NoConnection]]
        /\ dequeued = [n \in Procs |-> [t \in Consumers |-> None]]
        /\ history = [n \in Procs |-> [q \in Queues |-> NoHistory]]

NextMesh ==
    \/ \E n \in Procs, i \in 1..Cardinality(Procs) : GossipSend(n, i)
    \/ \E n \in Procs : GossipSkip(n)
    \/ \E n \in Procs : HeartbeatSkip(n)
    \/ \E n \in Procs : SendDelivered(n)

FairMesh ==
    /\ \A n \in Procs : WF_vars(SendDelivered(n))
    /\ \A n \in Procs, i \in 1..Cardinality(Procs) : SF_vars(GossipSend(n, i))

SpecMesh == InitMesh /\ [][NextMesh]_vars /\ FairMesh

\* Every table holds a Live record of every node.
Converged ==
    \A n \in Procs, m \in Procs :
        /\ RecordOf(n, DEFAULT_IP_ADDRESS, PortOf(m)) # 0
        /\ hive_nodes[n][RecordOf(n, DEFAULT_IP_ADDRESS, PortOf(m))].status = "Live"

(***************************************************************************)
(* C5: with stable membership, gossip enabled everywhere, every send       *)
(* succeeding and a knowledge graph that connects every pair of nodes,     *)
(* fair loops and a fair random choice of the peer eventually bring every  *)
(* table to hold every node's identity as Live, and it stays so.           *)
(***************************************************************************)
C5_GossipConverges == <>[]Converged

(***************************************************************************)
(* A process is killed, and started again: AppMain.run builds a table that *)
(* holds the local node alone, empty queues and the flags as the classes   *)
(* define them.                                                            *)
(***************************************************************************)
Crash(n) ==
    /\ n \in up
    /\ restarts[n] < MaxRestarts
    /\ up' = up \ {n}
    /\ hive_nodes' = [hive_nodes EXCEPT ![n] = StartedTable(n)]
    /\ outbound_message_queue' = [outbound_message_queue EXCEPT ![n] = <<>>]
    /\ inbound_message_queue' = [inbound_message_queue EXCEPT ![n] = <<>>]
    /\ failures' = [failures EXCEPT ![n] = [port \in Ports |-> 0]]
    /\ last' = Last("crash", n, PortOf(n), "Live")
    /\ UNCHANGED <<gossip_enable, heartbeat_enable, sender_running, processor_running,
                   now, restarts,
                   threads, connections, dequeued, history>>

Restart(n) ==
    /\ n \notin up
    /\ restarts[n] < MaxRestarts
    /\ up' = up \cup {n}
    /\ restarts' = [restarts EXCEPT ![n] = @ + 1]
    /\ hive_nodes' = [hive_nodes EXCEPT ![n] = StartedTable(n)]
    /\ gossip_enable' = [gossip_enable EXCEPT ![n] = TRUE]
    /\ heartbeat_enable' = [heartbeat_enable EXCEPT ![n] = TRUE]
    /\ sender_running' = [sender_running EXCEPT ![n] = TRUE]
    /\ processor_running' = [processor_running EXCEPT ![n] = TRUE]
    /\ last' = Last("start", n, PortOf(n), "Live")
    /\ UNCHANGED <<outbound_message_queue, inbound_message_queue, now, failures,
                   threads, connections, dequeued, history>>

(***************************************************************************)
(* SpecRecovery: a mesh of two nodes, A and B, that know each other.  B is *)
(* killed once and started again; while it is down A's sends to it are     *)
(* refused.  Once back, B's operator connects to A.  Every loop runs       *)
(* fairly.                                                                 *)
(***************************************************************************)
Mesh2 == {"A", "B"}

InitRecovery ==
    InitWith(Mesh2, [n \in Procs |->
        IF n \in Mesh2
        THEN LET m == CHOOSE m \in Mesh2 : m # n
             IN  Append(StartedTable(n), HiveNode(m, DEFAULT_IP_ADDRESS, PortOf(m), FALSE))
        ELSE StartedTable(n)])

NextRecovery ==
    \/ \E n \in Mesh2, i \in 1..Cardinality(Mesh2) : GossipSend(n, i)
    \/ \E n \in Mesh2 : GossipSkip(n)
    \/ \E n \in Mesh2, i \in 1..Cardinality(Mesh2) : HeartbeatSend(n, i)
    \/ \E n \in Mesh2 : HeartbeatSkip(n)
    \/ \E n \in Mesh2 : SendDelivered(n)
    \/ \E n \in Mesh2 : SendRefused(n)
    \/ \E n \in Mesh2 : ProcessorRun(n)
    \/ Crash("B")
    \/ Restart("B")
    \/ restarts["B"] > 0 /\ connect_to_node("B", DEFAULT_IP_ADDRESS, str(PortOf("A")))

FairRecovery ==
    /\ \A n \in Mesh2 : WF_vars(SendDelivered(n) \/ SendRefused(n))
    /\ \A n \in Mesh2 : WF_vars(ProcessorRun(n))
    /\ \A n \in Mesh2 : SF_vars(\E i \in 1..Cardinality(Mesh2) : GossipSend(n, i))
    /\ \A n \in Mesh2 : SF_vars(\E i \in 1..Cardinality(Mesh2) : HeartbeatSend(n, i))
    /\ WF_vars(\E n \in Mesh2 : GossipSkip(n) \/ HeartbeatSkip(n))
    /\ WF_vars(Restart("B"))

SpecRecovery == InitRecovery /\ [][NextRecovery]_vars /\ FairRecovery

\* B has been started again and its operator has just run connect to A.
Reconnected ==
    /\ "B" \in up
    /\ restarts["B"] > 0
    /\ last.op = "connect_to_node" /\ last.proc = "B" /\ last.port = PortOf("A")

(***************************************************************************)
(* C6: in the two-node mesh, once B has been started again, is reachable   *)
(* and its operator has run connect to A, A's record of B is eventually    *)
(* Live with failed_connection_count 0: B does not stay Dead at A for      *)
(* ever.                                                                   *)
(***************************************************************************)
C6_RecoveryIsLive ==
    Reconnected ~>
        LET i == RecordOf("A", DEFAULT_IP_ADDRESS, PortOf("B"))
        IN  /\ i # 0
            /\ hive_nodes["A"][i].status = "Live"
            /\ hive_nodes["A"][i].failed_connection_count = 0

(***************************************************************************)
(* SpecFine: the threads of node A that write to its node table, statement *)
(* by statement.  No lock guards the table or a record, so a thread may be *)
(* scheduled between any two statements of another.  Two connection        *)
(* handlers run add_node for entries of gossip frames, the inbound         *)
(* processor handles heartbeats, and the sender takes the refused branch   *)
(* for messages to a record of the table.                                  *)
(***************************************************************************)
coarse_state == <<up, outbound_message_queue, inbound_message_queue, gossip_enable,
                  heartbeat_enable, sender_running, processor_running, now, failures,
                  restarts, last,
                   dequeued, history>>

coarse == <<up, outbound_message_queue, inbound_message_queue, gossip_enable,
            heartbeat_enable, sender_running, processor_running, now, failures,
            restarts, last, connections,
            dequeued, history>>

At(n, t, pc) == n \in up /\ threads[n][t].pc = pc

Goto(n, t, pc, node, idx, count) ==
    threads' = [threads EXCEPT ![n][t] =
                    [pc |-> pc, node |-> node, idx |-> idx, count |-> count]]

Return(n, t) == threads' = [threads EXCEPT ![n][t] = Idle]

\* handle_gossip: the handler reaches add_node(new_node) for an entry that
\* is not the local node.
handle_gossip_entry(n, t, p) ==
    /\ At(n, t, "idle")
    /\ p # n
    /\ Len(hive_nodes[n]) < MaxTable
    /\ Goto(n, t, "add_node", HiveNode(p, DEFAULT_IP_ADDRESS, PortOf(p), FALSE), 0, 0)
    /\ UNCHANGED <<hive_nodes, coarse>>

\* add_node: existing_node = self.get_node_by_ip_address_and_port(...)
add_node_lookup(n, t) ==
    /\ At(n, t, "add_node")
    /\ LET new_node == threads[n][t].node
           existing_node == get_node_by_ip_address_and_port(
                                hive_nodes[n], new_node.ip_address, new_node.port_number)
       IN  Goto(n, t, IF existing_node # 0 THEN "rename" ELSE "append",
                new_node, existing_node, 0)
    /\ UNCHANGED <<hive_nodes, coarse>>

\* add_node: existing_node.friendly_name = new_node.friendly_name
add_node_rename(n, t) ==
    /\ At(n, t, "rename")
    /\ hive_nodes' = [hive_nodes EXCEPT ![n][threads[n][t].idx].friendly_name =
                            threads[n][t].node.friendly_name]
    /\ Return(n, t)
    /\ UNCHANGED coarse

\* add_node: self.hive_nodes.append(new_node)
add_node_append(n, t) ==
    /\ At(n, t, "append")
    /\ hive_nodes' = [hive_nodes EXCEPT ![n] = Append(@, threads[n][t].node)]
    /\ Return(n, t)
    /\ UNCHANGED coarse

\* process_command_heartbeat: the processor has dequeued a heartbeat from p.
process_command_heartbeat_begin(n, p) ==
    /\ At(n, "processor", "idle")
    /\ processor_running[n]
    /\ p # n
    /\ Len(hive_nodes[n]) < MaxTable
    /\ Goto(n, "processor", "heartbeat", HiveNode(p, DEFAULT_IP_ADDRESS, PortOf(p), FALSE), 0, 0)
    /\ UNCHANGED <<hive_nodes, coarse>>

\* process_command_heartbeat: source_node = get_node_by_ip_address_and_port(...);
\* when there is none the new node is stamped before it is handed to add_node.
process_command_heartbeat_lookup(n) ==
    /\ At(n, "processor", "heartbeat")
    /\ LET sender == threads[n]["processor"].node
           source_node == get_node_by_ip_address_and_port(
                              hive_nodes[n], sender.ip_address, sender.port_number)
       IN  IF source_node # 0
           THEN Goto(n, "processor", "timestamp", sender, source_node, 0)
           ELSE Goto(n, "processor", "add_node",
                     set_last_heartbeat_timestamp(sender, now), 0, 0)
    /\ UNCHANGED <<hive_nodes, coarse>>

\* set_last_heartbeat_timestamp: self.last_heartbeat_timestamp = now()
set_timestamp(n) ==
    /\ At(n, "processor", "timestamp")
    /\ hive_nodes' = [hive_nodes EXCEPT
            ![n][threads[n]["processor"].idx].last_heartbeat_timestamp = now]
    /\ Goto(n, "processor", "zero", threads[n]["processor"].node,
            threads[n]["processor"].idx, 0)
    /\ UNCHANGED coarse

\* set_last_heartbeat_timestamp: self.failed_connection_count = 0
set_count_zero(n) ==
    /\ At(n, "processor", "zero")
    /\ hive_nodes' = [hive_nodes EXCEPT
            ![n][threads[n]["processor"].idx].failed_connection_count = 0]
    /\ Goto(n, "processor", "alive", threads[n]["processor"].node,
            threads[n]["processor"].idx, 0)
    /\ UNCHANGED coarse

\* set_last_heartbeat_timestamp: self.node_is_alive()
set_alive(n) ==
    /\ At(n, "processor", "alive")
    /\ hive_nodes' = [hive_nodes EXCEPT ![n][threads[n]["processor"].idx] = node_is_alive(@)]
    /\ Return(n, "processor")
    /\ UNCHANGED coarse

\* send_message, except ConnectionRefusedError: the recipient is record idx of
\* the table and the thread reaches recipient.increase_failed_connection_count().
send_refused_begin(n, idx) ==
    /\ At(n, "sender", "idle")
    /\ sender_running[n]
    /\ idx \in 2..Len(hive_nodes[n])
    /\ hive_nodes[n][idx].failed_connection_count < MaxCount
    /\ Goto(n, "sender", "load", Idle.node, idx, 0)
    /\ UNCHANGED <<hive_nodes, coarse>>

\* increase_failed_connection_count: self.failed_connection_count += 1 reads ...
count_load(n) ==
    /\ At(n, "sender", "load")
    /\ Goto(n, "sender", "store", Idle.node, threads[n]["sender"].idx,
            hive_nodes[n][threads[n]["sender"].idx].failed_connection_count)
    /\ UNCHANGED <<hive_nodes, coarse>>

\* ... and writes the attribute.
count_store(n) ==
    /\ At(n, "sender", "store")
    /\ hive_nodes' = [hive_nodes EXCEPT
            ![n][threads[n]["sender"].idx].failed_connection_count =
                    threads[n]["sender"].count + 1]
    /\ Goto(n, "sender", "test", Idle.node, threads[n]["sender"].idx, 0)
    /\ UNCHANGED coarse

\* increase_failed_connection_count: if self.failed_connection_count >= MAX_SEND_ATTEMPTS
count_test(n) ==
    /\ At(n, "sender", "test")
    /\ IF hive_nodes[n][threads[n]["sender"].idx].failed_connection_count >= MAX_SEND_ATTEMPTS
       THEN Goto(n, "sender", "dead", Idle.node, threads[n]["sender"].idx, 0)
       ELSE Return(n, "sender")
    /\ UNCHANGED <<hive_nodes, coarse>>

\* increase_failed_connection_count: self.node_is_dead()
count_dead(n) ==
    /\ At(n, "sender", "dead")
    /\ hive_nodes' = [hive_nodes EXCEPT ![n][threads[n]["sender"].idx] = node_is_dead(@)]
    /\ Return(n, "sender")
    /\ UNCHANGED coarse

InitFine == InitWith({"A"}, [n \in Procs |-> StartedTable(n)])

NextFine ==
    \/ \E t \in Handlers, p \in Procs : handle_gossip_entry("A", t, p)
    \/ \E t \in Threads : add_node_lookup("A", t)
    \/ \E t \in Threads : add_node_rename("A", t)
    \/ \E t \in Threads : add_node_append("A", t)
    \/ \E p \in Procs : process_command_heartbeat_begin("A", p)
    \/ process_command_heartbeat_lookup("A")
    \/ set_timestamp("A")
    \/ set_count_zero("A")
    \/ set_alive("A")
    \/ \E idx \in 1..MaxTable : send_refused_begin("A", idx)
    \/ count_load("A")
    \/ count_store("A")
    \/ count_test("A")
    \/ count_dead("A")

SpecFine == InitFine /\ [][NextFine]_vars

(***************************************************************************)
(* C7: whatever the interleaving of the threads that add to the node       *)
(* table, no two records of a table have the same (ip_address,             *)
(* port_number).                                                           *)
(***************************************************************************)
C7_NoDuplicateRecords ==
    \A n \in Procs : \A i, j \in 1..Len(hive_nodes[n]) :
        i # j => ~eq(hive_nodes[n][i], hive_nodes[n][j])

(***************************************************************************)
(* C8: the processor's heartbeat handling and the sender's failure step    *)
(* act on a record as if one ran wholly before the other: once neither is  *)
(* inside its call, no record is Dead with failed_connection_count below   *)
(* MAX_SEND_ATTEMPTS or Live with it at or above MAX_SEND_ATTEMPTS.        *)
(***************************************************************************)
C8_HeartbeatAtomicWithFailure ==
    \A n \in Procs :
        (threads[n]["processor"].pc = "idle" /\ threads[n]["sender"].pc = "idle")
            => \A i \in 1..Len(hive_nodes[n]) :
                    hive_nodes[n][i].status = "Dead"
                        <=> hive_nodes[n][i].failed_connection_count >= MAX_SEND_ATTEMPTS

(***************************************************************************)
(* HiveReceiverService.handle_client, statement by statement, on the bytes *)
(* of a connection.  What recv returns is the JSON text of a frame, or     *)
(* text json.loads rejects, or JSON that lacks some keys of the envelope.  *)
(***************************************************************************)
\* The bytes to_json().encode() gives for a frame.
encode(data_dict) == [json |-> TRUE, missing |-> {}, data |-> data_dict]

\* int(text) raises ValueError on text that is not a number.
numeric(text) == text \in {str(port) : port \in Ports}

\* handle_gossip raises at the first entry whose port it cannot read, after
\* it has handled the entries before it.
RECURSIVE entries_handled(_)
entries_handled(entries) ==
    IF entries = <<>> \/ ~numeric(Head(entries).port_number) THEN <<>>
    ELSE <<Head(entries)>> \o entries_handled(Tail(entries))

\* data_dict.get('command'): None when the key is not there.
command_of(bytes) == IF "command" \in bytes.missing THEN "None" ELSE bytes.data.command

\* json.loads raises, or the subscripts that build sender_node do.
decode_raises(bytes) ==
    \/ ~bytes.json
    \/ bytes.missing \cap {"source_friendly_name", "source_ip_address", "source_port"} # {}

handle_gossip_raises(bytes) ==
    /\ command_of(bytes) = "gossip"
    /\ entries_handled(bytes.data.nodes) # bytes.data.nodes

handle_client_raises(bytes) == decode_raises(bytes) \/ handle_gossip_raises(bytes)

\* The frame as the handlers see it: the command read with get, and of a
\* gossip payload the entries handled before any exception.
decoded(bytes) ==
    [bytes.data EXCEPT !.command = command_of(bytes),
                       !.nodes = IF command_of(bytes) = "gossip"
                                 THEN entries_handled(bytes.data.nodes) ELSE @]

Received(bytes) == [event |-> "recv", frame |-> bytes]

Sent(bytes) == [event |-> "sendall", frame |-> bytes]

\* A receiver that writes its acknowledgment twice.
acknowledged_twice(log, local, sender_node) ==
    LET ack == Sent(encode(to_dict(<<local>>, AckMessage(TableRef(1), Object(sender_node)))))
    IN  Append(Append(log, ack), ack)

\* A receiver that builds AckMessage(sender_node, local_node).
acknowledged_swapped(log, local, sender_node) ==
    Append(log, Sent(encode(to_dict(<<local>>, AckMessage(Object(sender_node), TableRef(1))))))

\* client_socket.sendall(ack_message.to_json().encode())
acknowledged(log, local, sender_node) ==
    Append(log, Sent(encode(to_dict(<<local>>, AckMessage(TableRef(1), Object(sender_node))))))

\* server_socket.accept() and the start of the connection's thread.
accept(n, c) ==
    /\ n \in up
    /\ connections[n][c] = NoConnection
    /\ connections' = [connections EXCEPT ![n][c].open = TRUE]
    /\ UNCHANGED <<up, hive_nodes, outbound_message_queue, inbound_message_queue,
                   gossip_enable, heartbeat_enable, sender_running, processor_running,
                   now, failures, restarts, last, threads,
                   dequeued, history>>

\* The peer writes a frame on the connection.
RECURSIVE Traffic(_, _)
Traffic(n, cs) ==
    IF cs = {} THEN 0
    ELSE LET c == CHOOSE h \in cs : TRUE
         IN  Len(connections[n][c].unread) + Len(SelectSeq(connections[n][c].log,
                                                          LAMBDA e : e.event = "recv"))
             + Traffic(n, cs \ {c})

PeerWrites(n, c, bytes) ==
    /\ n \in up
    /\ connections[n][c].open
    /\ connections[n][c].unread = <<>>
    /\ Traffic(n, Handlers) < MaxFrames
    /\ connections' = [connections EXCEPT ![n][c].unread = Append(@, bytes)]
    /\ UNCHANGED <<up, hive_nodes, outbound_message_queue, inbound_message_queue,
                   gossip_enable, heartbeat_enable, sender_running, processor_running,
                   now, failures, restarts, last, threads,
                   dequeued, history>>

\* recv returns a frame: from json.loads to the end of the if/elif chain.  An
\* exception leaves the with block, which closes the socket, and ends the thread.
handle_client_recv(n, c) ==
    /\ At(n, c, "idle")
    /\ connections[n][c].open
    /\ connections[n][c].unread # <<>>
    /\ LET bytes == Head(connections[n][c].unread)
       IN  /\ (~decode_raises(bytes) /\ Enqueues(decoded(bytes)))
                    => Len(inbound_message_queue[n]) < MaxQueue
           /\ connections' = [connections EXCEPT ![n][c] =
                  [open |-> ~handle_client_raises(bytes),
                   unread |-> IF handle_client_raises(bytes) THEN <<>> ELSE Tail(@.unread),
                   log |-> Append(@.log, Received(bytes))]]
           /\ IF decode_raises(bytes)
              THEN UNCHANGED <<hive_nodes, inbound_message_queue, threads>>
              ELSE /\ inbound_message_queue' = [inbound_message_queue EXCEPT ![n] =
                          routed_queue(@, decoded(bytes))]
                   /\ hive_nodes' = [hive_nodes EXCEPT ![n] = routed_nodes(@, decoded(bytes))]
                   /\ IF handle_gossip_raises(bytes)
                      THEN UNCHANGED threads
                      ELSE Goto(n, c, "sendall", sender_node_of(decoded(bytes)), 0, 0)
    /\ UNCHANGED <<up, outbound_message_queue, gossip_enable, heartbeat_enable,
                   sender_running, processor_running, now, failures, restarts, last,
                   dequeued, history>>

\* The acknowledgment, and back to recv.
handle_client_sendall(n, c) ==
    /\ At(n, c, "sendall")
    /\ connections' = [connections EXCEPT ![n][c].log =
            acknowledged(@, local_node(n), threads[n][c].node)]
    /\ Return(n, c)
    /\ UNCHANGED <<hive_nodes, coarse_state>>

\* The peer closes its end: recv returns no data and the loop breaks.
handle_client_break(n, c) ==
    /\ At(n, c, "idle")
    /\ connections[n][c].open
    /\ connections[n][c].unread = <<>>
    /\ connections[n][c].log # <<>>
    /\ connections' = [connections EXCEPT ![n][c].open = FALSE]
    /\ UNCHANGED <<up, hive_nodes, outbound_message_queue, inbound_message_queue,
                   gossip_enable, heartbeat_enable, sender_running, processor_running,
                   now, failures, restarts, last, threads,
                   dequeued, history>>

(***************************************************************************)
(* SpecReceiver: the receiver of node A with two connections from peer B,  *)
(* which writes frames of every command, well formed or not, and may close *)
(* its end; the inbound processor drains the queue.                        *)
(***************************************************************************)
Heartbeat(p, n) == FrameFrom(p, n, HeartbeatMessage(TableRef(1), TableRef(2)))

\* A gossip payload whose first entry is a node and whose second has a port
\* that is not a number.
BrokenPayload ==
    <<[friendly_name |-> "C", ip_address |-> DEFAULT_IP_ADDRESS, port_number |-> str(PortOf("C"))],
      [friendly_name |-> "D", ip_address |-> DEFAULT_IP_ADDRESS, port_number |-> "port"]>>

Malformed(p, n) ==
    {[json |-> FALSE, missing |-> {}, data |-> Heartbeat(p, n)],
     [json |-> TRUE, missing |-> {"source_port"}, data |-> Heartbeat(p, n)],
     [json |-> TRUE, missing |-> {"command"}, data |-> Heartbeat(p, n)],
     encode(FrameFrom(p, n, GossipMessage(TableRef(1), TableRef(2), BrokenPayload)))}

WireFrames(p, n) == {encode(data_dict) : data_dict \in PeerFrames({p}, n)} \cup Malformed(p, n)

\* What the specification calls a well-formed frame.
WellFormed(bytes) == bytes.json /\ bytes.missing = {} /\ ~handle_gossip_raises(bytes)

\* The frames peer B writes to A.
ReceiverFrames == WireFrames("B", "A")

InitReceiver == InitWith({"A"}, [n \in Procs |-> StartedTable(n)])

NextReceiver ==
    \/ \E c \in Handlers : accept("A", c)
    \/ \E c \in Handlers, bytes \in ReceiverFrames : PeerWrites("A", c, bytes)
    \/ \E c \in Handlers : handle_client_recv("A", c)
    \/ \E c \in Handlers : handle_client_sendall("A", c)
    \/ \E c \in Handlers : handle_client_break("A", c)
    \/ ProcessorRun("A")

SpecReceiver == InitReceiver /\ [][NextReceiver]_vars

\* The log of connection c of node A, and whether its i-th event is the read
\* of a frame / the write of an acknowledgment addressed to that frame's source.
LogOf(c) == connections["A"][c].log

Reads(c, i) == i \in 1..Len(LogOf(c)) /\ LogOf(c)[i].event = "recv"

Acks(c, i, bytes) ==
    /\ i \in 1..Len(LogOf(c))
    /\ LogOf(c)[i].event = "sendall"
    /\ LET ack == LogOf(c)[i].frame
       IN  /\ WellFormed(ack)
           /\ ack.data.command = "ack_message"
           /\ ack.data.source_port = PortOf("A")
           /\ ack.data.destination_friendly_name = bytes.data.source_friendly_name
           /\ ack.data.destination_ip_address = bytes.data.source_ip_address
           /\ ack.data.destination_port = bytes.data.source_port

\* The i-th event of connection c is the read of a frame that is answered by
\* exactly one acknowledgment, written before anything else happens on c.
AnsweredOnce(c, i) ==
    IF i = Len(LogOf(c))
    THEN threads["A"][c].pc = "sendall"
    ELSE /\ Acks(c, i + 1, LogOf(c)[i].frame)
         /\ i + 1 = Len(LogOf(c)) \/ Reads(c, i + 2)
         /\ i + 1 = Len(LogOf(c)) => threads["A"][c].pc = "idle"

\* C11: on every connection, each well-formed frame received whose command is
\* not ack_message is answered with exactly one ack_message frame on that
\* connection, written before the next frame of the connection is read.
C11_AckBeforeNextFrame ==
    \A c \in Handlers : \A i \in 1..Len(LogOf(c)) :
        (/\ Reads(c, i)
         /\ WellFormed(LogOf(c)[i].frame)
         /\ LogOf(c)[i].frame.data.command # "ack_message")
            => AnsweredOnce(c, i)

\* Two frames were read on one connection, the first a heartbeat, and both
\* exchanges are over.
C11_TwoFramesAnswered ==
    \E c \in Handlers :
        /\ Len(LogOf(c)) = 4
        /\ Reads(c, 1) /\ LogOf(c)[1].frame = encode(Heartbeat("B", "A"))
        /\ Acks(c, 2, LogOf(c)[1].frame)
        /\ Reads(c, 3) /\ LogOf(c)[3].frame.data.command = "connect"
        /\ Acks(c, 4, LogOf(c)[3].frame)

\* A step in which the handler of connection c reads the frame bytes, and
\* one in which it writes the answer to the frame it has read.
ReadsFrame(c, bytes) == LogOf(c)' = Append(LogOf(c), Received(bytes))

AnswersFrame(c, bytes) ==
    /\ LogOf(c) # <<>>
    /\ LogOf(c)[Len(LogOf(c))] = Received(bytes)
    /\ Len(LogOf(c)') > Len(LogOf(c))

NothingEnqueuedNoRecordChanged ==
    /\ inbound_message_queue' = inbound_message_queue
    /\ hive_nodes' = hive_nodes

\* C12: a received ack_message frame is never itself acknowledged: the receiver
\* writes no frame back on the connection in response to it, enqueues nothing
\* and changes no node record.
C12_AckIsNotAcknowledged ==
    /\ [](\A c \in Handlers : \A i \in 1..Len(LogOf(c)) :
            (Reads(c, i) /\ WellFormed(LogOf(c)[i].frame)
                         /\ LogOf(c)[i].frame.data.command = "ack_message")
                => /\ i = Len(LogOf(c)) => threads["A"][c].pc # "sendall"
                   /\ i < Len(LogOf(c)) => Reads(c, i + 1))
    /\ [][\A c \in Handlers : \A bytes \in ReceiverFrames :
            (WellFormed(bytes) /\ bytes.data.command = "ack_message" /\ ReadsFrame(c, bytes))
                => NothingEnqueuedNoRecordChanged]_vars

\* C14: a malformed frame is dropped as a whole: no acknowledgment is written
\* for it, nothing is appended to the inbound queue, no node record is added or
\* changed, and the connection is closed.
C14_MalformedFrameDropped ==
    /\ [](\A c \in Handlers : \A i \in 1..Len(LogOf(c)) :
            (Reads(c, i) /\ ~WellFormed(LogOf(c)[i].frame))
                => /\ i = Len(LogOf(c))
                   /\ threads["A"][c].pc = "idle"
                   /\ ~connections["A"][c].open)
    /\ [][\A c \in Handlers : \A bytes \in ReceiverFrames :
            (~WellFormed(bytes) /\ ReadsFrame(c, bytes)) => NothingEnqueuedNoRecordChanged]_vars

Known == {"connect", "ack_message", "heartbeat", "gossip"}

\* C15: a well-formed frame with an unknown command is acknowledged with exactly
\* one ack_message, appends nothing to the inbound queue, changes no node
\* record, and leaves the connection open for further frames.
C15_UnknownCommandAcknowledged ==
    /\ [](\A c \in Handlers : \A i \in 1..Len(LogOf(c)) :
            (Reads(c, i) /\ WellFormed(LogOf(c)[i].frame)
                         /\ LogOf(c)[i].frame.data.command \notin Known)
                => AnsweredOnce(c, i))
    /\ [][\A c \in Handlers : \A bytes \in ReceiverFrames :
            (/\ WellFormed(bytes)
             /\ bytes.data.command \notin Known
             /\ ReadsFrame(c, bytes) \/ AnswersFrame(c, bytes))
                => NothingEnqueuedNoRecordChanged /\ connections'["A"][c].open]_vars

\* A frame of an unknown command was read and acknowledged, and the next frame
\* of the same connection was read after it.
C15_UnknownThenNextFrame ==
    \E c \in Handlers :
        /\ Len(LogOf(c)) >= 3
        /\ Reads(c, 1) /\ LogOf(c)[1].frame.data.command = "service_status"
        /\ Acks(c, 2, LogOf(c)[1].frame)
        /\ Reads(c, 3)
        /\ inbound_message_queue["A"] = <<>>
        /\ hive_nodes["A"] = StartedTable("A")

\* The step is a successful send by n of the message at the head of its queue.
SendsSuccessfully(n) ==
    /\ Sending(n)
    /\ last'.op = "send_delivered" /\ last'.proc = n
    /\ outbound_message_queue'[n] = Tail(outbound_message_queue[n])

\* The inbound message carries the command and the sender identity of the
\* outbound message M of node n.
Carries(inbound, n, M) ==
    /\ inbound.message.command = M.command
    /\ eq(deref(<<>>, inbound.message.sender), deref(hive_nodes[n], M.sender))
    /\ deref(<<>>, inbound.message.sender).friendly_name
            = deref(hive_nodes[n], M.sender).friendly_name

\* C13: each successful send of a connect, heartbeat or gossip message M
\* appends exactly one message to the recipient's inbound queue, carrying M's
\* command and M's sender identity.
C13_DeliveredOncePerSend ==
    [][\A n \in Procs :
        SendsSuccessfully(n) =>
            LET M == Head(outbound_message_queue[n]).message
                r == ProcAt(recipient_of(n).port_number)
            IN  M.command \in {"connect", "heartbeat", "gossip"} =>
                    /\ Len(inbound_message_queue'[r]) = Len(inbound_message_queue[r]) + 1
                    /\ SubSeq(inbound_message_queue'[r], 1, Len(inbound_message_queue[r]))
                            = inbound_message_queue[r]
                    /\ Carries(inbound_message_queue'[r][Len(inbound_message_queue'[r])], n, M)]_vars

(***************************************************************************)
(* SpecTable: HiveNodeManager as an object of its own.  add_node and       *)
(* remove_node are called one at a time on the table of node A with every  *)
(* argument a caller can build.                                            *)
(***************************************************************************)
TableArguments ==
    {HiveNode(friendly_name, DEFAULT_IP_ADDRESS, PortOf(p), is_local_node) :
        friendly_name \in Procs, p \in Procs, is_local_node \in BOOLEAN}

\* The tables the calls start from: A alone, and A with a record of B that
\* was heard once and has since been marked Dead.
TableStarts ==
    {StartedTable("A"),
     Append(StartedTable("A"),
            [HiveNode("B", DEFAULT_IP_ADDRESS, PortOf("B"), FALSE) EXCEPT
                !.last_heartbeat_timestamp = 1,
                !.status = "Dead",
                !.failed_connection_count = MAX_SEND_ATTEMPTS])}

add_node_call(n, new_node) ==
    /\ n \in up
    /\ RecordOf(n, new_node.ip_address, new_node.port_number) = 0
            => Len(hive_nodes[n]) < MaxTable
    /\ hive_nodes' = [hive_nodes EXCEPT ![n] = add_node(@, new_node)]
    /\ last' = Last("add_node", n, new_node.port_number,
                    StatusOf(hive_nodes[n], new_node.ip_address, new_node.port_number))
    /\ UNCHANGED <<up, outbound_message_queue, inbound_message_queue, gossip_enable,
                   heartbeat_enable, sender_running, processor_running, now, failures,
                   restarts, threads, connections, dequeued, history>>

remove_node_call(n, node_to_remove) ==
    /\ n \in up
    /\ hive_nodes' = [hive_nodes EXCEPT ![n] = remove_node(@, node_to_remove)]
    /\ last' = Last("remove_node", n, node_to_remove.port_number,
                    StatusOf(hive_nodes[n], node_to_remove.ip_address,
                             node_to_remove.port_number))
    /\ UNCHANGED <<up, outbound_message_queue, inbound_message_queue, gossip_enable,
                   heartbeat_enable, sender_running, processor_running, now, failures,
                   restarts, threads, connections, dequeued, history>>

InitTable ==
    \E table \in TableStarts :
        InitWith({"A"}, [n \in Procs |-> IF n = "A" THEN table ELSE StartedTable(n)])

NextTable ==
    \/ \E new_node \in TableArguments : add_node_call("A", new_node)
    \/ \E node_to_remove \in TableArguments : remove_node_call("A", node_to_remove)

SpecTable == InitTable /\ [][NextTable]_vars

\* C16: after every add and remove, whatever the arguments, exactly one record
\* of the table has is_local_node = true and it is the record created at
\* startup.
C16_OneLocalRecord ==
    LET nodes == hive_nodes["A"]
        flagged == {i \in 1..Len(nodes) : nodes[i].is_local_node}
    IN  /\ Cardinality(flagged) = 1
        /\ \A i \in flagged : eq(nodes[i], StartedTable("A")[1])

\* The positions of the records of a table that have the identity of node.
Same(nodes, node) ==
    {i \in 1..Len(nodes) : /\ nodes[i].ip_address = node.ip_address
                           /\ nodes[i].port_number = node.port_number}

\* C17: add(node) is an upsert keyed by (ip_address, port_number): when a
\* record with that identity exists, the only change to the table is that
\* record's friendly_name becoming the incoming name; otherwise the table
\* gains exactly that one record.  Adds executed one at a time never produce
\* two records with the same identity.
C17_AddIsUpsert ==
    /\ [](\A new_node \in TableArguments : Cardinality(Same(hive_nodes["A"], new_node)) <= 1)
    /\ [][\A new_node \in TableArguments :
            add_node_call("A", new_node) =>
                LET before == hive_nodes["A"]
                    after == hive_nodes'["A"]
                IN  IF Same(before, new_node) # {}
                    THEN /\ Len(after) = Len(before)
                         /\ \A i \in 1..Len(before) :
                                IF i \in Same(before, new_node)
                                THEN after[i] = [before[i] EXCEPT
                                                    !.friendly_name = new_node.friendly_name]
                                ELSE after[i] = before[i]
                    ELSE after = before \o <<new_node>>]_vars

\* An add has just renamed the record of B, which was and still is Dead with
\* its failures and its heartbeat time.
C17_DeadRecordRenamed ==
    /\ last.op = "add_node" /\ last.port = PortOf("B") /\ last.was = "Dead"
    /\ \E i \in 1..Len(hive_nodes["A"]) :
        /\ hive_nodes["A"][i].port_number = PortOf("B")
        /\ hive_nodes["A"][i].friendly_name = "C"
        /\ hive_nodes["A"][i].status = "Dead"
        /\ hive_nodes["A"][i].failed_connection_count = MAX_SEND_ATTEMPTS
        /\ hive_nodes["A"][i].last_heartbeat_timestamp = 1

(***************************************************************************)
(* SpecQueue: the two MessageQueue objects of node A with their producers  *)
(* and their consumers, statement by statement.  An enqueue call is one    *)
(* list.append; a dequeue call is the test of len(self.queue) and then     *)
(* self.queue.pop(0).  The sender's peer B is outside the model: a send is *)
(* acknowledged, refused or fails otherwise.                               *)
(***************************************************************************)
QueueOf(n, q) ==
    IF q = "Outbound" THEN outbound_message_queue[n] ELSE inbound_message_queue[n]

ConsumerOf(q) == IF q = "Outbound" THEN "sender" ELSE "processor"

Running(n, q) == IF q = "Outbound" THEN sender_running[n] ELSE processor_running[n]

\* self.queue of one MessageQueue becomes queue; the other instance is untouched.
Assign(n, q, queue) ==
    IF q = "Outbound"
    THEN /\ outbound_message_queue' = [outbound_message_queue EXCEPT ![n] = queue]
         /\ UNCHANGED inbound_message_queue
    ELSE /\ inbound_message_queue' = [inbound_message_queue EXCEPT ![n] = queue]
         /\ UNCHANGED outbound_message_queue

\* The history after an enqueue call; origin is 0 for a message that has not
\* been in the queue before.
Enqueued(h, hive_message, origin) ==
    LET ticket == Len(h.enqueued) + 1
    IN  [h EXCEPT !.enqueued = Append(@, hive_message),
                  !.origin = Append(@, IF origin = 0 THEN ticket ELSE origin),
                  !.waiting = enqueue(@, ticket)]

\* The history after dequeue has popped: result is what it returned.
Dequeued(h, result) ==
    [h EXCEPT !.returned = @ \o result,
              !.held = dequeue(h.waiting)[1],
              !.waiting = dequeue_rest(@)]

Attempted(h) == [h EXCEPT !.attempts = Append(@, h.origin[h.held]), !.held = 0]

\* The enqueue calls made by producers, the sender's own re-enqueues left out.
Produced(h) == {k \in 1..Len(h.origin) : h.origin[k] = k}

\* The messages the producers of each queue of n build.
Producible(n, q) ==
    IF q = "Outbound"
    THEN {HiveMessage(HeartbeatMessage(TableRef(1), TableRef(2))),
          HiveMessage(ConnectMessage(TableRef(1),
              Object(HiveNode("remote_node", DEFAULT_IP_ADDRESS, PortOf("B"), FALSE)), "Hello"))}
    ELSE {routed_queue(<<>>, data_dict)[1] :
            data_dict \in {FrameFrom("B", n, ConnectMessage(TableRef(1), TableRef(2), "Hello")),
                           Heartbeat("B", n)}}

\* MessageQueue.enqueue, called by a producer.
enqueue_call(n, q, hive_message) ==
    /\ n \in up
    /\ Cardinality(Produced(history[n][q])) < MaxMessages
    /\ Assign(n, q, enqueue(QueueOf(n, q), hive_message))
    /\ history' = [history EXCEPT ![n][q] = Enqueued(@, hive_message, 0)]
    /\ UNCHANGED <<up, hive_nodes, gossip_enable, heartbeat_enable, sender_running,
                   processor_running, now, failures, restarts, last, threads, connections,
                   dequeued>>

\* MessageQueue.dequeue, called by the consumer: if len(self.queue) > 0, and
\* return None when it is not.
dequeue_test(n, q) ==
    /\ At(n, ConsumerOf(q), "idle")
    /\ Running(n, q)
    /\ IF Len(QueueOf(n, q)) > 0
       THEN /\ Goto(n, ConsumerOf(q), "pop", Idle.node, 0, 0)
            /\ UNCHANGED dequeued
       ELSE /\ dequeued' = [dequeued EXCEPT ![n][ConsumerOf(q)] = dequeue(QueueOf(n, q))]
            /\ UNCHANGED threads
    /\ UNCHANGED <<up, hive_nodes, outbound_message_queue, inbound_message_queue,
                   gossip_enable, heartbeat_enable, sender_running, processor_running, now,
                   failures, restarts, last, connections, history>>

\* MessageQueue.dequeue: return self.queue.pop(0), and the consumer's if message.
dequeue_pop(n, q) ==
    /\ At(n, ConsumerOf(q), "pop")
    /\ dequeued' = [dequeued EXCEPT ![n][ConsumerOf(q)] = dequeue(QueueOf(n, q))]
    /\ Assign(n, q, dequeue_rest(QueueOf(n, q)))
    /\ history' = [history EXCEPT ![n][q] = Dequeued(@, dequeue(QueueOf(n, q)))]
    /\ Goto(n, ConsumerOf(q), "message", Idle.node, 0, 0)
    /\ UNCHANGED <<up, hive_nodes, gossip_enable, heartbeat_enable, sender_running,
                   processor_running, now, failures, restarts, last, connections>>

\* send_message: connect, sendall and recv succeed.
send_message_acked(n) ==
    /\ At(n, "sender", "message")
    /\ history' = [history EXCEPT ![n]["Outbound"] = Attempted(@)]
    /\ Return(n, "sender")
    /\ UNCHANGED <<up, hive_nodes, outbound_message_queue, inbound_message_queue,
                   gossip_enable, heartbeat_enable, sender_running, processor_running, now,
                   failures, restarts, last, connections, dequeued>>

\* send_message: connect raises ConnectionRefusedError.
send_message_refused(n) ==
    /\ At(n, "sender", "message")
    /\ LET hive_message == dequeued[n]["sender"][1]
           again == refused_message(hive_message).send_attempt_count < MAX_SEND_ATTEMPTS
           h == history[n]["Outbound"]
       IN  /\ dequeued' = [dequeued EXCEPT ![n]["sender"] = <<refused_message(hive_message)>>]
           /\ hive_nodes' = [hive_nodes EXCEPT ![n] = refused_nodes(@, hive_message)]
           /\ outbound_message_queue' = [outbound_message_queue EXCEPT ![n] =
                  IF again THEN enqueue(@, refused_message(hive_message)) ELSE @]
           /\ history' = [history EXCEPT ![n]["Outbound"] =
                  Attempted(IF again
                            THEN Enqueued(h, refused_message(hive_message), h.origin[h.held])
                            ELSE h)]
    /\ Return(n, "sender")
    /\ UNCHANGED <<up, inbound_message_queue, gossip_enable, heartbeat_enable,
                   sender_running, processor_running, now, failures, restarts, last,
                   connections>>

\* send_message: another OSError leaves run() and ends the sender's thread.
send_message_raised(n) ==
    /\ At(n, "sender", "message")
    /\ sender_running' = [sender_running EXCEPT ![n] = FALSE]
    /\ history' = [history EXCEPT ![n]["Outbound"] = Attempted(@)]
    /\ Return(n, "sender")
    /\ UNCHANGED <<up, hive_nodes, outbound_message_queue, inbound_message_queue,
                   gossip_enable, heartbeat_enable, processor_running, now, failures,
                   restarts, last, connections, dequeued>>

\* InboundQueueCommandProcessor.run: self.process_message(message)
run_process_message(n) ==
    /\ At(n, "processor", "message")
    /\ LET hive_message == dequeued[n]["processor"][1]
       IN  /\ hive_nodes' = [hive_nodes EXCEPT ![n] = process_message(@, hive_message, now)]
           /\ processor_running' = [processor_running EXCEPT ![n] =
                  ~process_message_raises(hive_message)]
    /\ history' = [history EXCEPT ![n]["Inbound"].held = 0]
    /\ Return(n, "processor")
    /\ UNCHANGED <<up, outbound_message_queue, inbound_message_queue, gossip_enable,
                   heartbeat_enable, sender_running, now, failures, restarts, last,
                   connections, dequeued>>

\* A has a record of B, the recipient of its heartbeats.
InitQueue ==
    InitWith({"A"}, [n \in Procs |->
        IF n = "A" THEN add_node(StartedTable(n), HiveNode("B", DEFAULT_IP_ADDRESS, PortOf("B"), FALSE))
        ELSE StartedTable(n)])

NextQueue ==
    \/ \E q \in Queues : \E hive_message \in Producible("A", q) : enqueue_call("A", q, hive_message)
    \/ \E q \in Queues : dequeue_test("A", q)
    \/ \E q \in Queues : dequeue_pop("A", q)
    \/ send_message_acked("A")
    \/ send_message_refused("A")
    \/ send_message_raised("A")
    \/ run_process_message("A")

SpecQueue == InitQueue /\ [][NextQueue]_vars

Other(q) == IF q = "Outbound" THEN "Inbound" ELSE "Outbound"

\* C18: each queue is FIFO: what dequeue has returned so far, followed by what
\* is in the queue, is what was enqueued, in the order of the enqueue calls;
\* dequeue on an empty queue returns nothing and leaves the queue unchanged;
\* a call on one instance never changes the other.
C18_QueueIsFifo ==
    /\ [](\A q \in Queues :
            history["A"][q].returned \o QueueOf("A", q) = history["A"][q].enqueued)
    /\ [][\A q \in Queues :
            /\ (dequeue_test("A", q) /\ QueueOf("A", q) = <<>>)
                    => /\ dequeued'["A"][ConsumerOf(q)] = None
                       /\ QueueOf("A", q)' = <<>>
            /\ (QueueOf("A", q)' # QueueOf("A", q) \/ history'["A"][q] # history["A"][q])
                    => /\ QueueOf("A", Other(q))' = QueueOf("A", Other(q))
                       /\ history'["A"][Other(q)] = history["A"][Other(q)]]_vars

\* The sender has been handed two different messages, oldest first, and then
\* nothing, and the processor has been handed a message of the other queue.
C18_DrainedInOrder ==
    /\ Len(history["A"]["Outbound"].returned) = 2
    /\ history["A"]["Outbound"].returned[1] # history["A"]["Outbound"].returned[2]
    /\ history["A"]["Outbound"].returned = history["A"]["Outbound"].enqueued
    /\ dequeued["A"]["sender"] = None
    /\ Len(history["A"]["Inbound"].returned) >= 1

Count(seq, x) == Cardinality({i \in 1..Len(seq) : seq[i] = x})

\* C19: under every interleaving of the producers' enqueues with the
\* consumer's dequeues, no enqueued message is lost and none is returned more
\* often than it was enqueued, and the consumer never pops an empty list.
C19_NoMessageLostOrRepeated ==
    \A q \in Queues :
        LET h == history["A"][q]
        IN  /\ At("A", ConsumerOf(q), "pop") => Len(QueueOf("A", q)) > 0
            /\ \A k \in 1..Len(h.enqueued) :
                    Count(h.enqueued, h.enqueued[k])
                        = Count(h.returned, h.enqueued[k]) + Count(QueueOf("A", q), h.enqueued[k])
            /\ \A k \in 1..Len(h.enqueued) : Count(h.waiting, k) + (IF h.held = k THEN 1 ELSE 0) <= 1

\* The sender stands between its test and its pop while the queue holds two
\* messages, one of them enqueued again after a failed send, and the processor
\* is inside its own dequeue.
C19_ProducersMeetConsumer ==
    /\ At("A", "sender", "pop")
    /\ Len(outbound_message_queue["A"]) = 2
    /\ Len(history["A"]["Outbound"].returned) >= 1
    /\ At("A", "processor", "pop")

\* C20: the sender preserves enqueue order: when it first tries to transmit a
\* message, every message that producers enqueued before it has been tried
\* already; a message tried after one enqueued later is a retry.
C20_FirstAttemptsInEnqueueOrder ==
    LET h == history["A"]["Outbound"]
        First(i) == \A j \in 1..(i - 1) : h.attempts[j] # h.attempts[i]
    IN  /\ \A i \in 1..Len(h.attempts) :
                First(i) => \A m1 \in Produced(h) :
                                m1 < h.attempts[i] => \E j \in 1..(i - 1) : h.attempts[j] = m1
        /\ \A i, j \in 1..Len(h.attempts) :
                (i < j /\ h.attempts[i] > h.attempts[j]) => ~First(j)

\* The first message failed, the second was transmitted, then the first again.
C20_RetryAfterLaterMessage == history["A"]["Outbound"].attempts = <<1, 2, 1>>

\* The identities a gossip payload names, and those of the Live records of a table.
PayloadIdentities(entries) ==
    {<<entries[i].ip_address, int(entries[i].port_number)>> : i \in 1..Len(entries)}

LiveIdentities(nodes) ==
    {<<nodes[i].ip_address, nodes[i].port_number>> :
        i \in {j \in 1..Len(nodes) : nodes[j].status = "Live"}}

\* C21: every gossip message the gossip loop builds carries one payload entry
\* for every record that is Live in the table at that tick, the local node
\* included, also when two Live records have the same friendly_name.
C21_PayloadNamesEveryLiveRecord ==
    [][\A n \in Procs, random_node \in 1..Cardinality(Procs) :
        GossipSend(n, random_node) =>
            LET queue == outbound_message_queue'[n]
                nodes == queue[Len(queue)].message.nodes
            IN  /\ PayloadIdentities(nodes) = LiveIdentities(hive_nodes[n])
                /\ Len(nodes) = Cardinality(LiveIdentities(hive_nodes[n]))]_vars

(***************************************************************************)
(* SpecLoops: the run() loops of the two protocol managers statement by    *)
(* statement on node A, whose table holds a Live record of the peer B      *)
(* outside the model, next to the sender and the operator's four protocol  *)
(* commands; nothing arrives from B.  A loop's thread is idle at the top   *)
(* of its while loop (a tick starts there); idx is the record              *)
(* get_random_live_node returned.                                          *)
(***************************************************************************)
\* if HeartbeatProtocolCommandManager.enable / GossipProtocolCommandManager.enable
heartbeat_protocol_enabled(n) == heartbeat_enable[n]

\* A gossip loop that tests the heartbeat protocol's flag.
gossip_protocol_enabled_by_heartbeat(n) == heartbeat_enable[n]

gossip_protocol_enabled(n) == gossip_enable[n]

LoopStep(n, op, port) ==
    /\ last' = Last(op, n, port, "absent")
    /\ UNCHANGED <<up, hive_nodes, inbound_message_queue, gossip_enable, heartbeat_enable,
                   sender_running, processor_running, now, failures, restarts,
                   connections, dequeued, history>>

\* The flag is tested: the tick goes on, or run() sleeps until the next one.
gossip_run_test(n) ==
    /\ At(n, "gossip", "idle")
    /\ IF gossip_protocol_enabled(n)
       THEN Goto(n, "gossip", "get_random_live_node", Idle.node, 0, 0)
       ELSE UNCHANGED threads
    /\ LoopStep(n, "gossip_run_test", 0)
    /\ UNCHANGED outbound_message_queue

\* random_node = get_random_live_node(); if random_node:
gossip_run_pick(n, random_node) ==
    /\ At(n, "gossip", "get_random_live_node")
    /\ random_node \in get_random_live_node(hive_nodes[n], local_node(n))
    /\ Goto(n, "gossip", "nodes_info", Idle.node, random_node, 0)
    /\ LoopStep(n, "gossip_run_pick", hive_nodes[n][random_node].port_number)
    /\ UNCHANGED outbound_message_queue

gossip_run_none(n) ==
    /\ At(n, "gossip", "get_random_live_node")
    /\ get_random_live_node(hive_nodes[n], local_node(n)) = {}
    /\ Return(n, "gossip")
    /\ LoopStep(n, "gossip_run_none", 0)
    /\ UNCHANGED outbound_message_queue

\* nodes_info is built from get_all_live_nodes() and the message enqueued.
gossip_run_enqueue(n) ==
    /\ At(n, "gossip", "nodes_info")
    /\ Len(outbound_message_queue[n]) < MaxQueue
    /\ outbound_message_queue' = [outbound_message_queue EXCEPT ![n] =
            enqueue(@, HiveMessage(GossipMessage(TableRef(1),
                                                 TableRef(threads[n]["gossip"].idx),
                                                 nodes_info(hive_nodes[n]))))]
    /\ Return(n, "gossip")
    /\ LoopStep(n, "gossip_run_enqueue",
                hive_nodes[n][threads[n]["gossip"].idx].port_number)

heartbeat_run_test(n) ==
    /\ At(n, "heartbeat", "idle")
    /\ IF heartbeat_protocol_enabled(n)
       THEN Goto(n, "heartbeat", "get_random_live_node", Idle.node, 0, 0)
       ELSE UNCHANGED threads
    /\ LoopStep(n, "heartbeat_run_test", 0)
    /\ UNCHANGED outbound_message_queue

heartbeat_run_pick(n, random_remote_node) ==
    /\ At(n, "heartbeat", "get_random_live_node")
    /\ random_remote_node \in get_random_live_node(hive_nodes[n], local_node(n))
    /\ Goto(n, "heartbeat", "enqueue", Idle.node, random_remote_node, 0)
    /\ LoopStep(n, "heartbeat_run_pick", hive_nodes[n][random_remote_node].port_number)
    /\ UNCHANGED outbound_message_queue

heartbeat_run_none(n) ==
    /\ At(n, "heartbeat", "get_random_live_node")
    /\ get_random_live_node(hive_nodes[n], local_node(n)) = {}
    /\ Return(n, "heartbeat")
    /\ LoopStep(n, "heartbeat_run_none", 0)
    /\ UNCHANGED outbound_message_queue

heartbeat_run_enqueue(n) ==
    /\ At(n, "heartbeat", "enqueue")
    /\ Len(outbound_message_queue[n]) < MaxQueue
    /\ outbound_message_queue' = [outbound_message_queue EXCEPT ![n] =
            enqueue(@, HiveMessage(HeartbeatMessage(TableRef(1),
                                                    TableRef(threads[n]["heartbeat"].idx))))]
    /\ Return(n, "heartbeat")
    /\ LoopStep(n, "heartbeat_run_enqueue",
                hive_nodes[n][threads[n]["heartbeat"].idx].port_number)

LoopsTable ==
    StartedTable("A") \o TableOf({"B"})

InitLoops ==
    InitWith({"A"}, [n \in Procs |-> IF n = "A" THEN LoopsTable ELSE StartedTable(n)])

NextLoops ==
    \/ gossip_run_test("A")
    \/ \E i \in 1..Len(LoopsTable) : gossip_run_pick("A", i)
    \/ gossip_run_none("A")
    \/ gossip_run_enqueue("A")
    \/ heartbeat_run_test("A")
    \/ \E i \in 1..Len(LoopsTable) : heartbeat_run_pick("A", i)
    \/ heartbeat_run_none("A")
    \/ heartbeat_run_enqueue("A")
    \/ enable_gossip_protocol("A")
    \/ disable_gossip_protocol("A")
    \/ enable_heartbeat_protocol("A")
    \/ disable_heartbeat_protocol("A")
    \/ SendAcked("A")
    \/ SendRefused("A")

SpecLoops == InitLoops /\ [][NextLoops]_vars

\* The record the gossip loop's tick has chosen as its recipient.
Chosen(n) == hive_nodes[n][threads[n]["gossip"].idx]

(***************************************************************************)
(* C22: whatever the sender and the inbound processor do in between, the   *)
(* payload of a gossip message the loop enqueues names the records that    *)
(* are Live at one instant, and the recipient the tick chose is one of     *)
(* them.                                                                   *)
(***************************************************************************)
C22_RecipientIsInPayload ==
    [][\A n \in Procs :
        gossip_run_enqueue(n) =>
            LET queue == outbound_message_queue'[n]
                nodes == queue[Len(queue)].message.nodes
            IN  /\ PayloadIdentities(nodes) = LiveIdentities(hive_nodes[n])
                /\ <<Chosen(n).ip_address, Chosen(n).port_number>>
                        \in PayloadIdentities(nodes)]_vars

\* The messages of a command waiting in the outbound queue of n.
Waiting(n, command) ==
    Len(SelectSeq(outbound_message_queue[n], LAMBDA m : m.message.command = command))

\* The loop of a protocol is at the top of a tick and finds the flag cleared.
Quiet(n, loop, flag) == At(n, loop, "idle") /\ ~flag[n]

(***************************************************************************)
(* C23: a tick of the gossip loop that starts while gossip is disabled     *)
(* enqueues nothing, and so do the ticks after it until gossip is enabled  *)
(* again; likewise the heartbeat loop and its flag.  Each loop goes by its *)
(* own flag alone, a command that sets one flag leaves the other as it is, *)
(* and setting a flag changes neither queue nor the node table.            *)
(***************************************************************************)
C23_DisabledLoopEnqueuesNothing ==
    [][\A n \in Procs :
        /\ Quiet(n, "gossip", gossip_enable) =>
                /\ Waiting(n, "gossip")' <= Waiting(n, "gossip")
                /\ ~gossip_enable'[n] => Quiet(n, "gossip", gossip_enable)'
        /\ Quiet(n, "heartbeat", heartbeat_enable) =>
                /\ Waiting(n, "heartbeat")' <= Waiting(n, "heartbeat")
                /\ ~heartbeat_enable'[n] => Quiet(n, "heartbeat", heartbeat_enable)'
        /\ gossip_run_test(n) /\ gossip_enable[n] => ~At(n, "gossip", "idle")'
        /\ heartbeat_run_test(n) /\ heartbeat_enable[n] => ~At(n, "heartbeat", "idle")'
        /\ gossip_enable' # gossip_enable \/ heartbeat_enable' # heartbeat_enable =>
                /\ gossip_enable' = gossip_enable \/ heartbeat_enable' = heartbeat_enable
                /\ UNCHANGED <<outbound_message_queue, inbound_message_queue, hive_nodes>>]_vars

\* The gossip loop has just started a tick with gossip disabled and sleeps
\* again; the gossip message enqueued earlier still waits, and the heartbeat
\* loop, enabled, is inside a tick next to a heartbeat it enqueued.
C23_TickWhileGossipDisabled ==
    /\ Quiet("A", "gossip", gossip_enable)
    /\ last.op = "gossip_run_test"
    /\ heartbeat_enable["A"]
    /\ At("A", "heartbeat", "enqueue")
    /\ Waiting("A", "gossip") = 1
    /\ Waiting("A", "heartbeat") = 1

(***************************************************************************)
(* SpecSender: HiveSenderClient.run and send_message statement by          *)
(* statement on node A, with the producers of the outbound queue.  The     *)
(* socket of send_message is created with no timeout, so connect, sendall  *)
(* and recv are blocking calls.  The peer B is outside the model: it       *)
(* refuses the connection or accepts it, and after the frame has been      *)
(* written (a frame fits the socket's send buffer, so sendall returns      *)
(* whether or not the peer reads) it answers or closes when it chooses     *)
(* to.  In the sender's thread, count is the number of answers (an         *)
(* acknowledgment or an end of stream) recv can return on the socket.      *)
(***************************************************************************)
\* client_socket.connect(...) returns: the peer accepted.
send_message_connect(n) ==
    /\ At(n, "sender", "message")
    /\ Goto(n, "sender", "sendall", Idle.node, 0, 0)
    /\ UNCHANGED <<coarse_state, hive_nodes, connections>>

\* client_socket.sendall(hive_message.message.to_json().encode())
send_message_sendall(n) ==
    /\ At(n, "sender", "sendall")
    /\ Goto(n, "sender", "recv", Idle.node, 0, 0)
    /\ UNCHANGED <<coarse_state, hive_nodes, connections>>

\* The peer writes an acknowledgment or closes the connection.
peer_answers(n) ==
    /\ At(n, "sender", "recv")
    /\ threads[n]["sender"].count = 0
    /\ Goto(n, "sender", "recv", Idle.node, 0, 1)
    /\ UNCHANGED <<coarse_state, hive_nodes, connections>>

\* data = client_socket.recv(1024) returns once there is something to return.
send_message_recv(n) ==
    /\ At(n, "sender", "recv")
    /\ threads[n]["sender"].count > 0
    /\ history' = [history EXCEPT ![n]["Outbound"] = Attempted(@)]
    /\ Return(n, "sender")
    /\ UNCHANGED <<up, hive_nodes, outbound_message_queue, inbound_message_queue,
                   gossip_enable, heartbeat_enable, sender_running, processor_running, now,
                   failures, restarts, last, connections, dequeued>>

\* The messages the loops and the operator of A produce for B.
SenderMessages == Producible("A", "Outbound")

NextSender ==
    \/ \E hive_message \in SenderMessages : enqueue_call("A", "Outbound", hive_message)
    \/ dequeue_test("A", "Outbound")
    \/ dequeue_pop("A", "Outbound")
    \/ send_message_connect("A")
    \/ send_message_refused("A")
    \/ send_message_raised("A")
    \/ send_message_sendall("A")
    \/ peer_answers("A")
    \/ send_message_recv("A")

\* The sender's thread is scheduled again and again, and a call that can
\* return does; nothing is assumed of the peer.
FairSender ==
    /\ WF_vars(dequeue_test("A", "Outbound"))
    /\ WF_vars(dequeue_pop("A", "Outbound"))
    /\ WF_vars(send_message_connect("A") \/ send_message_refused("A")
                    \/ send_message_raised("A"))
    /\ WF_vars(send_message_sendall("A"))
    /\ WF_vars(send_message_recv("A"))

SpecSender == InitQueue /\ [][NextSender]_vars /\ FairSender

\* The sender of n is inside send_message.
InSendMessage(n) == ~At(n, "sender", "idle") /\ ~At(n, "sender", "pop")

(***************************************************************************)
(* C24: every call of send_message returns, also when the peer accepts the *)
(* connection and then never answers; the sender gets back to the top of   *)
(* its loop, where it makes its next dequeue.                              *)
(***************************************************************************)
C24_SendAttemptEnds == InSendMessage("A") ~> At("A", "sender", "idle")

(***************************************************************************)
(* C25: a record goes from Live to Dead only in a step that completes      *)
(* MAX_SEND_ATTEMPTS failed attempts of the sender in a row against its    *)
(* address, with no successful send to it and no inbound evidence about it *)
(* in between: a successful send starts the count again.                   *)
(***************************************************************************)
C25_DeadOnlyAfterConsecutiveFailures ==
    [][\A n \in Procs : \A i \in 1..Len(hive_nodes[n]) :
        /\ i <= Len(hive_nodes'[n])
        /\ hive_nodes[n][i].status = "Live"
        /\ hive_nodes'[n][i].status = "Dead"
        => failures'[n][hive_nodes[n][i].port_number] >= MAX_SEND_ATTEMPTS]_vars

(***************************************************************************)
(* SpecHandshake: two running nodes, A and B, each started with a table    *)
(* that holds itself alone.  The operator of A connects to B's address;    *)
(* senders deliver, processors and the two protocol loops run on both.     *)
(***************************************************************************)
InitHandshake == InitWith(Mesh2, [n \in Procs |-> StartedTable(n)])

NextHandshake ==
    \/ connect_to_node("A", DEFAULT_IP_ADDRESS, str(PortOf("B")))
    \/ \E n \in Mesh2, i \in 1..Cardinality(Mesh2) : GossipSend(n, i)
    \/ \E n \in Mesh2 : GossipSkip(n)
    \/ \E n \in Mesh2, i \in 1..Cardinality(Mesh2) : HeartbeatSend(n, i)
    \/ \E n \in Mesh2 : HeartbeatSkip(n)
    \/ \E n \in Mesh2 : SendDelivered(n)
    \/ \E n \in Mesh2 : ProcessorRun(n)

SpecHandshake == InitHandshake /\ [][NextHandshake]_vars

\* The head of a queue is a connect message.
ConnectFirst(queue) == Len(queue) > 0 /\ Head(queue).message.command = "connect"

\* The table of n holds a record of every node of the two-node mesh.
KnowsBoth(n) == \A m \in Mesh2 : RecordOf(n, DEFAULT_IP_ADDRESS, PortOf(m)) # 0

(***************************************************************************)
(* C26: once the connect message of A's operator has been sent to B and    *)
(* acknowledged, A's table holds A and B (by the connect itself), and once *)
(* B's processor has handled that message B's table holds A and B.         *)
(***************************************************************************)
C26_HandshakeFillsBothTables ==
    [][/\ SendDelivered("A") /\ ConnectFirst(outbound_message_queue["A"]) => KnowsBoth("A")'
       /\ ProcessorRun("B") /\ ConnectFirst(inbound_message_queue["B"]) => KnowsBoth("B")']_vars

(***************************************************************************)
(* C27: while a node runs, no step of its receiver, sender, processor,     *)
(* protocol loops or operator commands takes a record out of its table:    *)
(* every record stays where it is with its address, a Dead one included,   *)
(* and the first record stays the local one.                               *)
(***************************************************************************)
C27_TableNeverShrinks ==
    [][\A n \in Procs :
        /\ Len(hive_nodes'[n]) >= Len(hive_nodes[n])
        /\ \A i \in 1..Len(hive_nodes[n]) :
                /\ hive_nodes'[n][i].ip_address = hive_nodes[n][i].ip_address
                /\ hive_nodes'[n][i].port_number = hive_nodes[n][i].port_number
                /\ hive_nodes'[n][i].is_local_node = hive_nodes[n][i].is_local_node]_vars

\* The sender has just marked B Dead, and B's record is still in A's table.
C27_DeadRecordKept ==
    /\ last.op = "send_refused"
    /\ Len(hive_nodes["A"]) = 2
    /\ hive_nodes["A"][2].port_number = PortOf("B")
    /\ hive_nodes["A"][2].status = "Dead"

\* The frame data_dict names node as its source / as its destination.
FromNode(data_dict, friendly_name, ip_address, port_number) ==
    /\ data_dict.source_friendly_name = friendly_name
    /\ data_dict.source_ip_address = ip_address
    /\ data_dict.source_port = port_number

ToNode(data_dict, friendly_name, ip_address, port_number) ==
    /\ data_dict.destination_friendly_name = friendly_name
    /\ data_dict.destination_ip_address = ip_address
    /\ data_dict.destination_port = port_number

(***************************************************************************)
(* C28: every acknowledgment the receiver writes is an ack_message frame   *)
(* whose source fields are the local node's friendly_name, ip and port and *)
(* whose destination fields are the source fields of the frame it answers, *)
(* the frame read last on the connection.                                  *)
(***************************************************************************)
C28_AckNamesLocalNodeAndSender ==
    [][\A c \in Handlers :
        handle_client_sendall("A", c) =>
            LET log == connections'["A"][c].log
                ack == log[Len(log)]
                read == log[Len(log) - 1]
                local == local_node("A")
            IN  /\ read.event = "recv" /\ ack.event = "sendall"
                /\ WellFormed(ack.frame)
                /\ ack.frame.data.command = "ack_message"
                /\ FromNode(ack.frame.data, local.friendly_name, local.ip_address,
                            local.port_number)
                /\ ToNode(ack.frame.data, read.frame.data.source_friendly_name,
                          read.frame.data.source_ip_address,
                          read.frame.data.source_port)]_vars

\* A connect frame of B has been read on a connection and answered from A to B.
C28_ConnectAcknowledgedToB ==
    \E c \in Handlers :
        /\ Len(LogOf(c)) = 2
        /\ LogOf(c)[1].event = "recv" /\ LogOf(c)[1].frame.data.command = "connect"
        /\ LogOf(c)[2].event = "sendall"
        /\ FromNode(LogOf(c)[2].frame.data, "A", DEFAULT_IP_ADDRESS, PortOf("A"))
        /\ ToNode(LogOf(c)[2].frame.data, "B", DEFAULT_IP_ADDRESS, PortOf("B"))

\* A step in which node n handles a gossip frame: the receiver routes one
\* (ReceiveFrame records the frame's command), or the inbound processor takes
\* one from its queue.
HandlesGossip(n) ==
    \/ last'.op = "gossip" /\ last'.proc = n
    \/ ProcessorRun(n) /\ Head(inbound_message_queue[n]).message.command = "gossip"

(***************************************************************************)
(* C29: a step that handles a gossip frame leaves the                      *)
(* last_heartbeat_timestamp of every record as it was, and every record it *)
(* inserts is Live with failed_connection_count 0 and no timestamp.        *)
(***************************************************************************)
C29_GossipSetsNoTimestamp ==
    [][HandlesGossip("A") =>
        /\ Len(hive_nodes'["A"]) >= Len(hive_nodes["A"])
        /\ \A i \in 1..Len(hive_nodes["A"]) :
                hive_nodes'["A"][i].last_heartbeat_timestamp
                    = hive_nodes["A"][i].last_heartbeat_timestamp
        /\ \A i \in (Len(hive_nodes["A"]) + 1)..Len(hive_nodes'["A"]) :
                /\ hive_nodes'["A"][i].status = "Live"
                /\ hive_nodes'["A"][i].failed_connection_count = 0
                /\ hive_nodes'["A"][i].last_heartbeat_timestamp = NoTimestamp]_vars

\* A gossip frame from B, of which A had no record, has just been handled:
\* it inserted B after the record of C, whose timestamp is as it was.
C29_GossipInsertedB ==
    /\ last.op = "gossip" /\ last.port = PortOf("B") /\ last.was = "absent"
    /\ Len(hive_nodes["A"]) = 3
    /\ hive_nodes["A"][2].port_number = PortOf("C")
    /\ hive_nodes["A"][2].last_heartbeat_timestamp = 1
    /\ hive_nodes["A"][3].port_number = PortOf("B")
    /\ hive_nodes["A"][3].last_heartbeat_timestamp = NoTimestamp

\* The sender of n delivers the frame of its head message: the node that
\* receives it decodes it into a message, the newest of its inbound queue,
\* which to_dict encodes as the frame that was delivered.
RoundTrip(n) ==
    LET r == ProcAt(recipient_of(n).port_number)
        queue == inbound_message_queue'[r]
    IN  /\ Len(queue) = Len(inbound_message_queue[r]) + 1
        /\ to_dict(hive_nodes'[r], queue[Len(queue)].message) = frame_of(n)

(***************************************************************************)
(* C30: a well-formed frame of any command, decoded into a message by the  *)
(* node that receives it and encoded again, is the frame that was          *)
(* received: the same command, source and destination fields and payload.  *)
(***************************************************************************)
C30_DecodeThenEncodeIsTheFrame ==
    [][\A n \in Mesh2 : SendDelivered(n) => RoundTrip(n)]_vars

\* The records of the table of n that are Live and are not the local node.
LivePeers(n) ==
    {i \in 1..Len(hive_nodes[n]) :
        hive_nodes[n][i].status = "Live" /\ ~hive_nodes[n][i].is_local_node}

\* The command of the messages a loop builds.
CommandOf(loop) == loop

(***************************************************************************)
(* C31: in an enabled tick of the gossip or the heartbeat loop the         *)
(* selection returns a record of the table that is Live at that moment and *)
(* is not the local node when there is one, and the tick then appends      *)
(* exactly one message, from the local node to that record, to the         *)
(* outbound queue; when there is none the tick ends and has changed        *)
(* neither the queue nor the table.                                        *)
(***************************************************************************)
C31_TickEnqueuesOneMessageToLivePeer ==
    [][\A n \in Procs : \A loop \in Loops :
        LET before == threads[n][loop]
            after == threads'[n][loop]
        IN  /\ before.pc = "get_random_live_node" /\ after # before =>
                    /\ UNCHANGED <<outbound_message_queue, hive_nodes>>
                    /\ IF LivePeers(n) = {} THEN after.pc = "idle"
                       ELSE after.pc # "idle" /\ after.idx \in LivePeers(n)
            /\ before.pc \in {"nodes_info", "enqueue"} /\ after # before =>
                    LET queue == outbound_message_queue'[n]
                        hive_message == queue[Len(queue)]
                    IN  /\ after.pc = "idle"
                        /\ queue = Append(outbound_message_queue[n], hive_message)
                        /\ hive_message.send_attempt_count = 0
                        /\ hive_message.message.command = CommandOf(loop)
                        /\ deref(hive_nodes[n], hive_message.message.sender) = local_node(n)
                        /\ local_node(n).is_local_node
                        /\ hive_message.message.recipient = TableRef(before.idx)
                        /\ before.idx \in 2..Len(hive_nodes[n])
                        /\ UNCHANGED hive_nodes]_vars

\* The heartbeat loop's tick has just appended its one message, to the Live
\* record of B, to an outbound queue that was empty.
C31_HeartbeatEnqueuedToB ==
    /\ last.op = "heartbeat_run_enqueue"
    /\ Len(outbound_message_queue["A"]) = 1
    /\ outbound_message_queue["A"][1].message.command = "heartbeat"
    /\ outbound_message_queue["A"][1].message.recipient = TableRef(2)
    /\ hive_nodes["A"][2].status = "Live"

(***************************************************************************)
(* SpecStartup: AppMain.run up to the start of the threads, in each of the *)
(* three processes: HiveNode(args...), then HiveNodeManager.__init__ with  *)
(* its add_node(local_node), load_config("hive_config.json") and           *)
(* status_check().  The file is absent, or holds a list of node entries.   *)
(* In the main thread count is the file the process finds.                 *)
(***************************************************************************)
ConfigEntry(friendly_name, port_number) ==
    [friendly_name |-> friendly_name, ip_address |-> DEFAULT_IP_ADDRESS,
     port_number |-> port_number, status |-> "Live"]

\* hive_config.json as a process may find it.
ConfigFiles ==
    <<[present |-> FALSE, nodes_config |-> <<>>],
      [present |-> TRUE, nodes_config |-> <<>>],
      [present |-> TRUE, nodes_config |-> <<ConfigEntry("B", PortOf("B"))>>],
      [present |-> TRUE, nodes_config |-> <<ConfigEntry("A", PortOf("A")),
                                            ConfigEntry("C", PortOf("C"))>>]>>

\* load_config: open() raises when there is no file, and with a file
\* HiveNode(...) is called with five arguments where __init__ takes four at
\* most, a TypeError at the first entry, before add_node.  except Exception
\* logs either and returns: no entry of any file reaches the table.
load_config(nodes, config) ==
    CASE ~config.present -> nodes
      [] config.nodes_config = <<>> -> nodes
      [] OTHER -> nodes

\* find_node_by_friendly_name: the first record with the name (0 for None).
find_node_by_friendly_name(nodes, node) ==
    LET found == {i \in 1..Len(nodes) : nodes[i].friendly_name = node.friendly_name}
    IN  IF found = {} THEN 0 ELSE CHOOSE i \in found : \A j \in found : i <= j

\* status_check reads hive.services of the record it finds; HiveNode.__init__
\* sets no attribute of that name, so the read raises AttributeError.
status_check_raises(nodes, node) == find_node_by_friendly_name(nodes, node) # 0

\* local_node = HiveNode(...); HiveNodeManager.__init__ up to add_node(local_node)
manager_init(n, k) ==
    /\ n \notin up
    /\ threads[n]["main"].pc = "idle"
    /\ hive_nodes[n] = <<>>
    /\ hive_nodes' = [hive_nodes EXCEPT ![n] =
            add_node(<<>>, HiveNode(n, DEFAULT_IP_ADDRESS, PortOf(n), TRUE))]
    /\ Goto(n, "main", "load_config", Idle.node, 0, k)
    /\ UNCHANGED <<coarse_state, connections>>

manager_load_config(n) ==
    /\ threads[n]["main"].pc = "load_config"
    /\ hive_nodes' = [hive_nodes EXCEPT ![n] =
            load_config(@, ConfigFiles[threads[n]["main"].count])]
    /\ Goto(n, "main", "status_check", Idle.node, 0, threads[n]["main"].count)
    /\ UNCHANGED <<coarse_state, connections>>

\* self.status_check(): an exception leaves __init__ and AppMain.run, and the
\* process ends; otherwise run() goes on to start the threads.
manager_status_check(n) ==
    /\ threads[n]["main"].pc = "status_check"
    /\ IF status_check_raises(hive_nodes[n], local_node(n))
       THEN /\ Goto(n, "main", "raised", Idle.node, 0, threads[n]["main"].count)
            /\ UNCHANGED up
       ELSE /\ Goto(n, "main", "running", Idle.node, 0, threads[n]["main"].count)
            /\ up' = up \cup {n}
    /\ UNCHANGED <<hive_nodes, outbound_message_queue, inbound_message_queue, gossip_enable,
                   heartbeat_enable, sender_running, processor_running, now, failures,
                   restarts, last, connections, dequeued, history>>

InitStartup == InitWith({}, [n \in Procs |-> <<>>])

NextStartup ==
    \/ \E n \in Procs, k \in 1..Len(ConfigFiles) : manager_init(n, k)
    \/ \E n \in Procs : manager_load_config(n)
    \/ \E n \in Procs : manager_status_check(n)

SpecStartup == InitStartup /\ [][NextStartup]_vars

(***************************************************************************)
(* C33: the construction of the node table never ends in an exception,     *)
(* with a configuration file or without one, and once it is over the table *)
(* holds one record, the local one (flagged local, Live, count 0, no       *)
(* timestamp) and both queues are empty.                                   *)
(***************************************************************************)
C33_StartupBuildsTheTable ==
    \A n \in Procs :
        /\ threads[n]["main"].pc # "raised"
        /\ threads[n]["main"].pc = "running" =>
                /\ hive_nodes[n] = <<HiveNode(n, DEFAULT_IP_ADDRESS, PortOf(n), TRUE)>>
                /\ outbound_message_queue[n] = <<>>
                /\ inbound_message_queue[n] = <<>>

(***************************************************************************)
(* SpecAlias: the receiver and the inbound processor of node A, started    *)
(* from the tables of SpecInbound.  The peers B and C know A's address     *)
(* under another friendly name: every gossip frame they send lists it      *)
(* under that name, alone or among their own records.  They send           *)
(* heartbeats as well.                                                     *)
(***************************************************************************)
Alias(friendly_name) == HiveNode(friendly_name, DEFAULT_IP_ADDRESS, PortOf("A"), FALSE)

AliasTables ==
    UNION {{<<Alias(name)>>,
            <<Alias(name)>> \o TableOf({"B"}),
            TableOf({"C"}) \o <<Alias(name)>>,
            TableOf({"B", "C"}) \o <<Alias(name)>>} :
        name \in {DEFAULT_FRIENDLY_NAME, "remote_node"}}

AliasFrames ==
    {FrameFrom(p, "A", GossipMessage(TableRef(1), TableRef(2), nodes_info(table))) :
        p \in {"B", "C"}, table \in AliasTables}
    \cup {Heartbeat("B", "A"), Heartbeat("C", "A")}

NextAlias ==
    \/ \E data_dict \in AliasFrames : ReceiveFrame("A", data_dict)
    \/ ProcessorRun("A")
    \/ Tick

SpecAlias == InitInbound /\ [][NextAlias]_vars

(***************************************************************************)
(* C32: a step that handles a gossip frame leaves the local record as it   *)
(* was, field by field, also when the payload lists the local ip and port  *)
(* under another friendly name, and adds no second record of that address. *)
(***************************************************************************)
C32_GossipSkipsLocalIdentity ==
    [][HandlesGossip("A") =>
        /\ hive_nodes'["A"][1] = hive_nodes["A"][1]
        /\ hive_nodes'["A"][1].is_local_node
        /\ \A i \in 2..Len(hive_nodes'["A"]) :
                \/ hive_nodes'["A"][i].ip_address # hive_nodes["A"][1].ip_address
                \/ hive_nodes'["A"][i].port_number # hive_nodes["A"][1].port_number]_vars

\* A gossip frame of B, which lists A's address under another name and B
\* itself, has just been handled by an A that had no record of B: B was
\* inserted and the local record has the name it was started with.
C32_AliasSkippedAndBInserted ==
    /\ last.op = "gossip" /\ last.port = PortOf("B") /\ last.was = "absent"
    /\ Len(hive_nodes["A"]) = 2
    /\ hive_nodes["A"][2].port_number = PortOf("B")
    /\ hive_nodes["A"][1] = HiveNode("A", DEFAULT_IP_ADDRESS, PortOf("A"), TRUE)

(***************************************************************************)
(* C34: every message in an outbound queue has a send_attempt_count from 0 *)
(* to MAX_SEND_ATTEMPTS - 1, and every message in an inbound queue has     *)
(* send_attempt_count 0.                                                   *)
(***************************************************************************)
C34_AttemptCountsInRange ==
    \A n \in Procs :
        /\ \A i \in 1..Len(outbound_message_queue[n]) :
                outbound_message_queue[n][i].send_attempt_count \in 0..(MAX_SEND_ATTEMPTS - 1)
        /\ \A i \in 1..Len(inbound_message_queue[n]) :
                inbound_message_queue[n][i].send_attempt_count = 0

\* A message that was refused MAX_SEND_ATTEMPTS - 1 times waits in A's
\* outbound queue for its last attempt, and a message waits in the inbound one.
C34_LastRetryWaiting ==
    /\ last.op = "send_refused"
    /\ \E i \in 1..Len(outbound_message_queue["A"]) :
            outbound_message_queue["A"][i].send_attempt_count = MAX_SEND_ATTEMPTS - 1
    /\ Len(inbound_message_queue["A"]) > 0

\* The status of a record agrees with its failure count.
StatusMatchesCount(node) ==
    (node.status = "Dead") <=> (node.failed_connection_count >= MAX_SEND_ATTEMPTS)

\* The node objects the messages of a queue hold themselves (the others are
\* records of the table).
HeldNodes(queue) ==
    {queue[i].message.recipient.node :
        i \in {j \in 1..Len(queue) : queue[j].message.recipient.kind = "object"}}
    \cup {queue[i].message.sender.node :
        i \in {j \in 1..Len(queue) : queue[j].message.sender.kind = "object"}}

SelfFrames ==
    {to_dict(<<Alias("remote_node"), HiveNode("A", DEFAULT_IP_ADDRESS, PortOf("A"), FALSE)>>,
             ConnectMessage(TableRef(1), TableRef(2), "Hello")),
     to_dict(<<Alias("remote_node"), HiveNode("A", DEFAULT_IP_ADDRESS, PortOf("A"), FALSE)>>,
             HeartbeatMessage(TableRef(1), TableRef(2)))}

NextSelf ==
    \/ \E p \in {"A", "B"} : connect_to_node("A", DEFAULT_IP_ADDRESS, str(PortOf(p)))
    \/ \E i \in 1..Len(LoopsTable) : GossipSend("A", i)
    \/ GossipSkip("A")
    \/ \E i \in 1..Len(LoopsTable) : HeartbeatSend("A", i)
    \/ HeartbeatSkip("A")
    \/ SendDelivered("A")
    \/ SendRefused("A")
    \/ \E data_dict \in SelfFrames : ReceiveFrame("A", data_dict)
    \/ ProcessorRun("A")

SpecSelf == InitLoops /\ [][NextSelf]_vars

(***************************************************************************)
(* C36: in every reachable state the record of the local node in its own   *)
(* table is Live with failed_connection_count 0, whatever the sender's     *)
(* failures, the inbound messages, the loops' ticks and the operator's     *)
(* commands, a connect to the node's own address included.                 *)
(***************************************************************************)
C36_LocalRecordStaysLive ==
    \A n \in up :
        \A i \in 1..Len(hive_nodes[n]) :
            (\/ hive_nodes[n][i].is_local_node
             \/ (hive_nodes[n][i].ip_address = DEFAULT_IP_ADDRESS
                    /\ hive_nodes[n][i].port_number = PortOf(n)))
                => /\ hive_nodes[n][i].status = "Live"
                   /\ hive_nodes[n][i].failed_connection_count = 0

\* A has processed the connect it sent to its own address, and refused sends
\* have marked B Dead in A's table.
C36_SelfConnectProcessed ==
    /\ last.op = "process_command_connect" /\ last.proc = "A" /\ last.port = PortOf("A")
    /\ \E i \in 1..Len(hive_nodes["A"]) :
            hive_nodes["A"][i].port_number = PortOf("B") /\ hive_nodes["A"][i].status = "Dead"

(***************************************************************************)
(* C37: while a peer is Dead in the table of a node, the gossip and the    *)
(* heartbeat loop of that node enqueue no new message addressed to it: the *)
(* recipient of a message a loop appends to the outbound queue is Live in  *)
(* the table at the moment it is appended.                                 *)
(***************************************************************************)
C37_NoLoopMessageToDeadPeer ==
    [][\A n \in Procs : \A loop \in Loops :
        LET before == threads[n][loop]
            after == threads'[n][loop]
        IN  (/\ before.pc \in {"nodes_info", "enqueue"}
             /\ after # before
             /\ Len(outbound_message_queue'[n]) = Len(outbound_message_queue[n]) + 1)
                => hive_nodes[n][before.idx].status = "Live"]_vars

(***************************************************************************)
(* SpecDrain: node A with a record of a peer B outside the model.  The two *)
(* loops and the operator's connect fill the outbound queue until the      *)
(* operator disables the loops; every send attempt ends, acknowledged,     *)
(* refused or by another OSError.  The sender's thread is scheduled        *)
(* fairly: it takes a turn whenever its loop can take one.                 *)
(***************************************************************************)
NextDrain ==
    \/ \E i \in 1..Len(LoopsTable) : GossipSend("A", i)
    \/ GossipSkip("A")
    \/ \E i \in 1..Len(LoopsTable) : HeartbeatSend("A", i)
    \/ HeartbeatSkip("A")
    \/ connect_to_node("A", DEFAULT_IP_ADDRESS, str(PortOf("B")))
    \/ disable_gossip_protocol("A")
    \/ disable_heartbeat_protocol("A")
    \/ SendAcked("A")
    \/ SendRefused("A")
    \/ SendRaised("A")

FairDrain == WF_vars(SendAcked("A") \/ SendRefused("A") \/ SendRaised("A"))

SpecDrain == InitLoops /\ [][NextDrain]_vars /\ FairDrain

\* A step of a loop that puts a new message in the outbound queue of n, or a
\* command of the operator.
NewMessage(n) ==
    \/ \E i \in 1..Len(hive_nodes[n]) : GossipSend(n, i) \/ HeartbeatSend(n, i)
    \/ connect_to_node(n, DEFAULT_IP_ADDRESS, str(PortOf("B")))
    \/ disable_gossip_protocol(n) \/ disable_heartbeat_protocol(n)

(***************************************************************************)
(* C38: if from some point on both loops are disabled, nothing new is      *)
(* enqueued and the operator gives no command, and every send attempt      *)
(* ends, then with the sender scheduled fairly the outbound queue is       *)
(* eventually empty and stays empty.                                       *)
(***************************************************************************)
C38_OutboundQueueDrains ==
    (/\ <>[](~gossip_enable["A"] /\ ~heartbeat_enable["A"])
     /\ <>[][~NewMessage("A")]_vars)
        => <>[](outbound_message_queue["A"] = <<>>)
====
